---- MODULE Spec2Model ----
(***************************************************************************)
(* A model of the context aggregation engine of Ollama-Code                *)
(* (src/context_manager/manager.go): the file-content cache guarded by a   *)
(* reader/writer mutex, the size-budgeted context assembler, the ignore    *)
(* rules and the two walks over the project tree.                          *)
(***************************************************************************)
EXTENDS Integers, Sequences, FiniteSets, TLC

(***************************************************************************)
(* Bounds of the model.                                                    *)
(***************************************************************************)
\* number of concurrent callers of GetFileContent
NumProcs == 2
\* the largest modification timestamp the filesystem hands out
MaxClock == 2

\* the largest budget SetMaxContextLength is called with
MaxBudget == 90
\* the longest list findRelatedFiles hands to GetFileContext
MaxRelated == 2
\* the length of the long file content
LongLen == 60

\* the number of AddIgnorePattern calls
MaxAdds == 1
\* the largest maxFiles GetRelevantFiles is called with
MaxLimit == 2

Procs == 1..NumProcs

(***************************************************************************)
(* Paths and file contents are sequences of one-character strings.         *)
(***************************************************************************)
rootPath == <<"/", "p">>

NameA == <<"a", ".", "g", "o">>
NameB == <<"b", ".", "g", "o">>
NameC == <<"c", ".", "g", "o">>

\* filepath.Join(rootPath, name)
Join(dir, name) == dir \o <<"/">> \o name

PathA == Join(rootPath, NameA)
PathB == Join(rootPath, NameB)
PathC == Join(rootPath, NameC)

\* the files the callers of the cache ask for
CachePaths == {PathA}

\* contents a file may hold
Contents == {<<"x">>, <<"y", "y">>}

\* the files of the project GetFileContext works on
CtxPaths == {PathA, PathB, PathC}

LongContent == [i \in 1..LongLen |-> "z"]

File(c, t) == [exists |-> TRUE, readable |-> TRUE, content |-> c, mtime |-> t]
\* a path with no file
Missing == [exists |-> FALSE, readable |-> FALSE, content |-> <<>>, mtime |-> 0]
\* a file whose content the process may not read
Unreadable == [exists |-> TRUE, readable |-> FALSE, content |-> <<>>, mtime |-> 1]

\* the project's files in SpecCtx: a.go is short or long, b.go may be unreadable,
\* c.go is empty; each of them may be missing
FileStates == {Missing, Unreadable, File(<<>>, 1), File(<<"x">>, 1),
               File(<<"x", "y">>, 1), File(LongContent, 1)}
Choices(f) ==
    IF f = PathA THEN {Missing, File(<<"x">>, 1), File(LongContent, 1)}
    ELSE IF f = PathB THEN {Missing, Unreadable, File(<<"x", "y">>, 1)}
    ELSE {Missing, File(<<>>, 1)}

VARIABLES
    fs,          \* the filesystem: path -> [exists, readable, content, mtime]
    clock,       \* the last modification timestamp handed out
    written,     \* history: the <<path, mtime, content>> the filesystem ever held
    fileCache,   \* ContextManager.fileCache : path -> content
    fileMtimes,  \* ContextManager.fileMtimes : path -> mtime
    readers,     \* the callers holding cm.mutex for reading
    writer,      \* the caller holding cm.mutex for writing, or 0
    pc,          \* each caller's position inside GetFileContent
    filePath,    \* each caller's argument
    content,     \* each caller's local `content` (cached, or read from disk)
    info,        \* each caller's local `info.ModTime()` of the second stat
    ret,         \* each caller's return value [err, content]
    reads,       \* history: os.ReadFile calls made by the observed caller's call
    prev,        \* history: the observed caller's previous call
    quietCur,    \* history: the file is as it was when the observed call started
    quietPrev,   \* history: the file is as it was when the previous call started
    modified,    \* history: the file was modified after the previous call returned
    storedSince, \* history: another caller stored the entry since the last call completed
    othersStored, \* history: another caller stored it between the last two completions
    maxContextLen, \* ContextManager.maxContextLen
    cpc,         \* the position of the caller of GetFileContext
    cpath,       \* its argument filePath
    relatedFiles, \* its local relatedFiles
    idx,         \* the index of its range loop
    context,     \* its strings.Builder
    totalLength, \* its local totalLength
    cret,        \* its return value [err, content]
    sections,    \* history: what was written to the builder, and for which list index
    tests,       \* history: the values of cm.maxContextLen the call compared against
    tree,        \* the project tree: path -> "none", "dir", "file", "dangling" (a
                 \* link to nothing), "noread" (a directory whose entries cannot be
                 \* read) or "nostat" (an entry whose lstat fails)
    ignoreDirs,  \* ContextManager.ignoreDirs
    ignoreFiles, \* ContextManager.ignoreFiles
    isKaliLinux, \* ContextManager.isKaliLinux
    apc,         \* the position of the caller of AddIgnorePattern
    apattern,    \* its argument pattern
    spc,         \* the position of the direct caller of ShouldIgnore
    spath,       \* its argument path
    sret,        \* its return value
    wpc,         \* the position of the caller of a walk
    wmode,       \* "structure" (GetProjectStructure) or "relevant" (GetRelevantFiles)
    todo,        \* the paths filepath.Walk has still to hand to the callback
    result,      \* the strings.Builder of GetProjectStructure
    listed,      \* history: the paths GetProjectStructure wrote a line for
    relevantFiles, \* the local relevantFiles of GetRelevantFiles
    query,       \* its argument query
    maxFiles,    \* its argument maxFiles
    wret,        \* the return value of the walk's caller [err, content]
    late,        \* history: the callback got a file when maxFiles matches were collected
    rpc,         \* the position of the caller of findRelatedFiles
    rfile,       \* its argument filePath
    rcontent,    \* its argument content
    found,        \* its return value
    uiMutex,     \* TerminalUI.mutex: "free", or the goroutine that locked it
    upc,         \* the position of each goroutine that uses the terminal UI
    urole,       \* the role argument of the AddMessage call of each goroutine
    umsg,        \* the tea.Msg the event loop is handling in Update
    nested,      \* the goroutine called UpdateViewContent from AddMessage
    messages,    \* TerminalUI.messages: the roles and the number of parts appended
    ready,       \* TerminalUI.ready
    loading,     \* TerminalUI.loading
    viewed,      \* the number of messages in the content of the viewport
    width        \* TerminalUI.width

cacheVars == <<fileCache, fileMtimes>>
mutexVars == <<readers, writer>>
fsVars == <<fs, clock, written>>
localVars == <<pc, filePath, content, info, ret>>
histVars == <<reads, prev, quietCur, quietPrev, modified, storedSince, othersStored>>
\* what the callers of GetFileContent own, and the history of the filesystem
callerVars == <<clock, written, readers, writer, pc, filePath, content, info, ret,
                reads, prev, quietCur, quietPrev, modified, storedSince, othersStored>>
ctxVars == <<maxContextLen, cpc, cpath, relatedFiles, idx, context, totalLength,
             cret, sections, tests>>
ignVars == <<ignoreDirs, ignoreFiles, isKaliLinux, apc, apattern>>
shouldVars == <<spc, spath, sret>>
walkVars == <<wpc, wmode, todo, result, listed, relevantFiles, query, maxFiles,
              wret, late>>
relVars == <<rpc, rfile, rcontent, found>>
\* the ignore rules, the project tree and the callers that work on them
extVars == <<ignVars, tree, shouldVars, walkVars, relVars>>
uiVars == <<uiMutex, upc, urole, umsg, nested, messages, ready, loading, viewed, width>>
vars == <<fs, clock, written, fileCache, fileMtimes, readers, writer,
          pc, filePath, content, info, ret,
          reads, prev, quietCur, quietPrev, modified, storedSince, othersStored,
          maxContextLen, cpc, cpath, relatedFiles, idx, context, totalLength,
          cret, sections, tests,
          tree, ignoreDirs, ignoreFiles, isKaliLinux, apc, apattern,
          spc, spath, sret,
          wpc, wmode, todo, result, listed, relevantFiles, query, maxFiles, wret, late,
          rpc, rfile, rcontent, found,
          uiMutex, upc, urole, umsg, nested, messages, ready, loading, viewed, width>>

\* m[k] = v of a Go map
Put(m, k, v) == [x \in (DOMAIN m) \cup {k} |-> IF x = k THEN v ELSE m[x]]

EmptyMap == [x \in {} |-> 0]

\* the caller whose successive calls the history variables record
Observed == CHOOSE p \in Procs : TRUE

NoCall == [called |-> FALSE, path |-> <<>>, err |-> FALSE, content |-> <<>>]

NoRet == [err |-> FALSE, content |-> <<>>]
Ok(c) == [err |-> FALSE, content |-> c]
\* return "", err
Err == [err |-> TRUE, content |-> <<>>]

(***************************************************************************)
(* The filesystem calls.                                                   *)
(***************************************************************************)
\* os.Stat(path): err == nil
StatOk(path) == fs[path].exists
\* info.ModTime().UnixNano()
ModTime(path) == fs[path].mtime
\* os.ReadFile(path): err == nil
ReadOk(path) == fs[path].exists /\ fs[path].readable
ReadFile(path) == fs[path].content

(***************************************************************************)
(* The project tree the ignore matcher and the walks look at. A node is a  *)
(* directory, a regular file, a symbolic link whose target is gone         *)
(* ("dangling": os.Lstat succeeds, os.Stat fails), or absent ("none").     *)
(***************************************************************************)
NameB0 == <<"b">>
NameTxt == <<"a", ".", "t", "x", "t">>
NameVenv == <<"v", "e", "n", "v">>
NameD == <<"d">>
NameS == <<"s">>
NameO == <<"a", ".", "o">>
NameX == <<"x", ".", "g", "o">>
NameY == <<"Y", ".", "g", "o">>
NameA0 == <<"a">>
NameAJs == <<"a", ".", "j", "s">>
NameAPy == <<"a", ".", "p", "y">>
NameBJs == <<"b", ".", "j", "s">>
NameBPy == <<"b", ".", "p", "y">>
NameCJs == <<"c", ".", "j", "s">>
NameCPy == <<"c", ".", "p", "y">>

NodeVenv == Join(rootPath, NameVenv)
NodeVenvX == Join(NodeVenv, NameX)
NodeVenvS == Join(NodeVenv, NameS)
NodeVenvSX == Join(NodeVenvS, NameX)
NodeD == Join(rootPath, NameD)
NodeDX == Join(NodeD, NameX)
NodeDY == Join(NodeD, NameY)
NodeO == Join(rootPath, NameO)
NodeX == Join(rootPath, NameX)

Nodes == {rootPath, NodeVenv, NodeVenvX, NodeVenvS, NodeVenvSX,
          NodeD, NodeDX, NodeDY, NodeO, NodeX}

\* the index of the last separator of a path
LastSlash(path) ==
    CHOOSE i \in 1..Len(path) :
        path[i] = "/" /\ \A j \in (i + 1)..Len(path) : path[j] # "/"

\* filepath.Base(path)
Base(path) == SubSeq(path, LastSlash(path) + 1, Len(path))

\* filepath.Dir(path)
Dir(path) ==
    IF LastSlash(path) = 1 THEN <<"/">> ELSE SubSeq(path, 1, LastSlash(path) - 1)

\* a tree from the kinds of its nodes; below a node that is no directory there
\* is nothing
TreeOf(venv, venvX, venvS, d, dX, dY, o, x) ==
    [n \in Nodes |->
        IF n = rootPath THEN "dir"
        ELSE IF n = NodeVenv THEN venv
        ELSE IF n = NodeVenvX THEN (IF venv = "dir" THEN venvX ELSE "none")
        ELSE IF n = NodeVenvS THEN (IF venv = "dir" THEN venvS ELSE "none")
        ELSE IF n = NodeVenvSX
        THEN (IF venv = "dir" /\ venvS = "dir" THEN "file" ELSE "none")
        ELSE IF n = NodeD THEN d
        ELSE IF n = NodeDX THEN (IF d = "dir" THEN dX ELSE "none")
        ELSE IF n = NodeDY THEN (IF d = "dir" THEN dY ELSE "none")
        ELSE IF n = NodeO THEN o
        ELSE x]

\* the trees of the model: venv is a directory (with x.go and possibly s/x.go),
\* a file or absent; d is a directory (with any of x.go and Y.go) or absent;
\* a.o is a file, a dangling link, a directory or absent; x.go is a file
Trees ==
    {TreeOf(venv, "file", venvS, d, dX, dY, o, "file") :
        venv \in {"none", "dir", "file"},
        venvS \in {"none", "dir"}, d \in {"none", "dir"},
        dX \in {"none", "file"}, dY \in {"none", "file"},
        o \in {"none", "file", "dangling", "dir"}}

\* what is at a path
Kind(path) == IF path \in DOMAIN tree THEN tree[path] ELSE "none"

\* os.Stat(path): follows symbolic links
Stat(path) ==
    [err |-> Kind(path) \in {"none", "dangling", "nostat"},
     isDir |-> Kind(path) \in {"dir", "noread"}]

\* os.Lstat(path), as filepath.Walk calls it: the link itself
Lstat(path) ==
    [err |-> Kind(path) \in {"none", "nostat"}, isDir |-> Kind(path) \in {"dir", "noread"}]

\* the error filepath.Walk hands to the callback with a path: the lstat of the
\* entry failed, or the entries of the directory could not be read
WalkErr(path) == Lstat(path).err \/ Kind(path) = "noread"

\* the names of the model in the order readDirNames sorts them
SortedNames ==
    <<NameY, NameA0, NameA, NameAJs, NameO, NameAPy, NameTxt, NameB0, NameB, NameBJs,
      NameBPy, NameC, NameCJs, NameCPy, NameD, NameS, NameVenv, NameX>>

\* the sorted names of the entries of a directory
ReadDirNames(dir) ==
    SelectSeq(SortedNames,
              LAMBDA n : Join(dir, n) \in DOMAIN tree /\ tree[Join(dir, n)] # "none")

\* the paths of the entries of a directory, in that order
ChildPaths(dir) ==
    [i \in 1..Len(ReadDirNames(dir)) |-> Join(dir, ReadDirNames(dir)[i])]

(***************************************************************************)
(* strings and path/filepath functions                                     *)
(***************************************************************************)
UpperCase == <<"A", "B", "C", "D", "E", "F", "G", "H", "I", "J", "K", "L", "M", "N", "O", "P", "Q", "R", "S", "T", "U", "V", "W", "X", "Y", "Z">>
LowerCase == <<"a", "b", "c", "d", "e", "f", "g", "h", "i", "j", "k", "l", "m", "n", "o", "p", "q", "r", "s", "t", "u", "v", "w", "x", "y", "z">>

\* strings.ToLower(s)
ToLower(s) ==
    [i \in 1..Len(s) |->
        IF \E k \in 1..Len(UpperCase) : UpperCase[k] = s[i]
        THEN LowerCase[CHOOSE k \in 1..Len(UpperCase) : UpperCase[k] = s[i]]
        ELSE s[i]]

\* strings.Contains(s, substr)
Contains(s, substr) ==
    \E i \in 0..(Len(s) - Len(substr)) : SubSeq(s, i + 1, i + Len(substr)) = substr

\* strings.HasSuffix(s, suffix)
HasSuffix(s, suffix) ==
    /\ Len(s) >= Len(suffix)
    /\ SubSeq(s, Len(s) - Len(suffix) + 1, Len(s)) = suffix

\* a pattern stored with its separator
TrimSuffixNot(s, suffix) == s

\* strings.TrimSuffix(s, suffix)
TrimSuffix(s, suffix) ==
    IF HasSuffix(s, suffix) THEN SubSeq(s, 1, Len(s) - Len(suffix)) ELSE s

\* filepath.Match reports ErrBadPattern for a malformed pattern. Of the bracket
\* syntax the patterns of the model use only the unterminated "[".
BadPattern(pattern) == \E i \in 1..Len(pattern) : pattern[i] \in {"[", "\\"}

\* a well-formed pattern of literals, '?' and '*' matches the whole name
RECURSIVE Glob(_, _)
Glob(pattern, name) ==
    IF pattern = <<>> THEN name = <<>>
    ELSE IF Head(pattern) = "*"
    THEN \E k \in 0..Len(name) : Glob(Tail(pattern), SubSeq(name, k + 1, Len(name)))
    ELSE /\ name # <<>>
         /\ Head(pattern) = "?" \/ Head(pattern) = Head(name)
         /\ Glob(Tail(pattern), Tail(name))

\* matched, err := filepath.Match(pattern, name)
Match(pattern, name) ==
    IF BadPattern(pattern) THEN [matched |-> FALSE, err |-> TRUE]
    ELSE [matched |-> Glob(pattern, name), err |-> FALSE]

(***************************************************************************)
(* The ignore rules.                                                       *)
(***************************************************************************)
\* ignoreDirs := []string{".git", "node_modules", "__pycache__", "venv", ".env", ".venv"}
DefaultIgnoreDirs ==
    <<<<".", "g", "i", "t">>,
      <<"n", "o", "d", "e", "_", "m", "o", "d", "u", "l", "e", "s">>,
      <<"_", "_", "p", "y", "c", "a", "c", "h", "e", "_", "_">>,
      <<"v", "e", "n", "v">>,
      <<".", "e", "n", "v">>,
      <<".", "v", "e", "n", "v">>>>

\* kaliSpecificDirs
KaliSpecificDirs ==
    <<<<".", "m", "s", "f", "4">>,
      <<"m", "e", "t", "a", "s", "p", "l", "o", "i", "t", "-", "f", "r", "a", "m", "e", "w", "o", "r", "k">>,
      <<"w", "o", "r", "d", "l", "i", "s", "t", "s">>,
      <<"e", "x", "p", "l", "o", "i", "t", "d", "b">>>>

\* ignoreFiles: []string{".DS_Store", "*.pyc", "*.o", "*.out", "*.log"}
DefaultIgnoreFiles ==
    <<<<".", "D", "S", "_", "S", "t", "o", "r", "e">>,
      <<"*", ".", "p", "y", "c">>,
      <<"*", ".", "o">>,
      <<"*", ".", "o", "u", "t">>,
      <<"*", ".", "l", "o", "g">>>>

\* ignoreDirs after NewContextManager
NewIgnoreDirs(isKali) ==
    IF isKali THEN DefaultIgnoreDirs \o KaliSpecificDirs ELSE DefaultIgnoreDirs

(***************************************************************************)
(* The state after NewContextManager.                                       *)
(***************************************************************************)
\* maxContextLen: 16384
DefaultMaxContextLen == 16384

InitManager ==
    /\ fileCache = EmptyMap
    /\ fileMtimes = EmptyMap
    /\ readers = {}
    /\ writer = 0
    /\ maxContextLen = DefaultMaxContextLen
    /\ ignoreDirs = NewIgnoreDirs(isKaliLinux)
    /\ ignoreFiles = DefaultIgnoreFiles

\* no call of GetFileContent is under way
InitCallers ==
    /\ pc = [p \in Procs |-> "idle"]
    /\ filePath = [p \in Procs |-> PathA]
    /\ content = [p \in Procs |-> <<>>]
    /\ info = [p \in Procs |-> 0]
    /\ ret = [p \in Procs |-> NoRet]
    /\ reads = 0
    /\ prev = NoCall
    /\ quietCur = FALSE
    /\ quietPrev = FALSE
    /\ modified = FALSE
    /\ storedSince = FALSE
    /\ othersStored = FALSE

\* no call of GetFileContext is under way
InitContext ==
    /\ cpc = "idle"
    /\ cpath = PathA
    /\ relatedFiles = <<>>
    /\ idx = 0
    /\ context = <<>>
    /\ totalLength = 0
    /\ cret = NoRet
    /\ sections = <<>>
    /\ tests = {}

\* no call of AddIgnorePattern, ShouldIgnore or a walk is under way
InitIgnoreCallers ==
    /\ apc = "idle"
    /\ apattern = <<>>
    /\ spc = "idle"
    /\ spath = rootPath
    /\ sret = FALSE
    /\ wpc = "idle"
    /\ wmode = "none"
    /\ todo = <<>>
    /\ result = <<>>
    /\ listed = <<>>
    /\ relevantFiles = <<>>
    /\ query = <<>>
    /\ maxFiles = 0
    /\ wret = NoRet
    /\ late = FALSE

\* no call of findRelatedFiles is under way
InitRelatedCaller ==
    /\ rpc = "idle"
    /\ rfile = PathA
    /\ rcontent = <<>>
    /\ found = <<>>

\* the goroutines that use the terminal UI: the host's main goroutine, the
\* event loop that calls Update, and a command the event loop started
UIThreads == {"host", "loop", "cmd"}

\* the state after NewTerminalUI; no call is under way
InitUI ==
    /\ uiMutex = "free"
    /\ upc = [t \in UIThreads |-> "idle"]
    /\ urole = [t \in UIThreads |-> "none"]
    /\ umsg = "none"
    /\ nested = [t \in UIThreads |-> FALSE]
    /\ messages = <<>>
    /\ ready = FALSE
    /\ loading = FALSE
    /\ viewed = 0
    /\ width = 0

\* a project of which nothing but the root is looked at, on a host that is not
\* Kali Linux
InitPlain ==
    /\ InitUI
    /\ isKaliLinux = FALSE
    /\ tree = [n \in {rootPath} |-> "dir"]
    /\ InitIgnoreCallers
    /\ InitRelatedCaller

\* the callers of the cache work on files that exist
InitCache ==
    /\ InitPlain
    /\ clock = 1
    /\ fs = [f \in CachePaths |-> File(<<"x">>, 1)]
    /\ written = {<<f, 1, <<"x">>>> : f \in CachePaths}
    /\ InitManager
    /\ InitCallers
    /\ InitContext

Init == InitCache

(***************************************************************************)
(* External modifications of a file. Every one of them gives the file a    *)
(* timestamp it never had.                                                 *)
(***************************************************************************)
\* the history of the observed caller when file f changes on disk
Touched(f) ==
    /\ quietCur' = (quietCur /\ filePath[Observed] # f)
    /\ quietPrev' = (quietPrev /\ prev.path # f)
    /\ UNCHANGED <<reads, prev, storedSince, othersStored>>

Modify(f) ==
    /\ fs[f].exists
    /\ clock < MaxClock
    /\ \E c \in Contents \ {fs[f].content} :
        /\ fs' = [fs EXCEPT ![f] = File(c, clock + 1)]
        /\ written' = written \cup {<<f, clock + 1, c>>}
    /\ clock' = clock + 1
    /\ Touched(f)
    /\ modified' = (modified \/ (pc[Observed] = "idle" /\ prev.called /\ prev.path = f))
    /\ UNCHANGED <<uiVars, ctxVars, extVars, cacheVars, mutexVars, localVars>>

Remove(f) ==
    /\ fs[f].exists
    /\ fs' = [fs EXCEPT ![f].exists = FALSE]
    /\ Touched(f)
    /\ modified' = (modified /\ ~(pc[Observed] = "idle" /\ prev.path = f))
    /\ UNCHANGED <<uiVars, ctxVars, extVars, clock, written, cacheVars, mutexVars, localVars>>

Create(f) ==
    /\ ~fs[f].exists
    /\ clock < MaxClock
    /\ \E c \in Contents :
        /\ fs' = [fs EXCEPT ![f] = File(c, clock + 1)]
        /\ written' = written \cup {<<f, clock + 1, c>>}
    /\ clock' = clock + 1
    /\ Touched(f)
    /\ UNCHANGED <<uiVars, ctxVars, extVars, modified, cacheVars, mutexVars, localVars>>

(***************************************************************************)
(* GetFileContent, one action per step of a caller.                        *)
(***************************************************************************)
\* the history of the observed caller when caller p's call completes (done = TRUE)
\* or goes on (done = FALSE)
Step(p, done) ==
    IF p = Observed /\ done
    THEN othersStored' = storedSince /\ storedSince' = FALSE
    ELSE UNCHANGED <<storedSince, othersStored>>

\* a caller starts GetFileContent(f)
Call(p, f) ==
    /\ pc[p] = "idle"
    /\ pc' = [pc EXCEPT ![p] = "rlock"]
    /\ filePath' = [filePath EXCEPT ![p] = f]
    /\ IF p = Observed
       THEN /\ reads' = 0
            /\ quietPrev' = (quietCur /\ prev.called /\ prev.path = f)
            /\ quietCur' = TRUE
            /\ modified' = (modified /\ prev.called /\ prev.path = f)
            /\ UNCHANGED <<prev, storedSince, othersStored>>
       ELSE UNCHANGED histVars
    /\ UNCHANGED <<uiVars, ctxVars, extVars, fsVars, cacheVars, mutexVars, content, info, ret>>

\* cm.mutex.RLock(), which blocks while a writer holds the mutex or waits for it,
\* then content, ok := cm.fileCache[filePath]; RUnlock at once when there is no entry
RLock(p) ==
    /\ pc[p] = "rlock"
    /\ writer = 0
    /\ \A q \in Procs : pc[q] # "lock"
    /\ IF filePath[p] \in DOMAIN fileCache
       THEN /\ readers' = readers \cup {p}
            /\ content' = [content EXCEPT ![p] = fileCache[filePath[p]]]
            /\ pc' = [pc EXCEPT ![p] = "stat1"]
       ELSE /\ pc' = [pc EXCEPT ![p] = "read"]
            /\ UNCHANGED <<readers, content>>
    /\ UNCHANGED <<uiVars, ctxVars, extVars, fsVars, cacheVars, writer, filePath, info, ret, histVars>>

\* a fast path that trusts any entry whose file can still be stat'ed
CacheHitAnyMtime(path) ==
    /\ StatOk(path)
    /\ path \in DOMAIN fileMtimes

\* the fast path's condition: the stat succeeds and the stored time is the file's
CacheHit(path) ==
    /\ StatOk(path)
    /\ path \in DOMAIN fileMtimes
    /\ fileMtimes[path] = ModTime(path)

\* os.Stat(filePath) of the fast path, then RUnlock on either way out
Stat1(p) ==
    /\ pc[p] = "stat1"
    /\ readers' = readers \ {p}
    /\ IF CacheHit(filePath[p])
       THEN /\ ret' = [ret EXCEPT ![p] = Ok(content[p])]
            /\ pc' = [pc EXCEPT ![p] = "done"]
            /\ Step(p, TRUE)
       ELSE /\ pc' = [pc EXCEPT ![p] = "read"]
            /\ Step(p, FALSE)
            /\ UNCHANGED ret
    /\ content' = [content EXCEPT ![p] = <<>>]
    /\ UNCHANGED <<uiVars, ctxVars, extVars, fsVars, cacheVars, writer, filePath, info,
                   reads, prev, quietCur, quietPrev, modified>>

\* a failed read that also drops the stale entry of the path
ReadEvicting(p) ==
    /\ pc[p] = "read"
    /\ reads' = IF p = Observed THEN reads + 1 ELSE reads
    /\ IF ReadOk(filePath[p])
       THEN /\ content' = [content EXCEPT ![p] = ReadFile(filePath[p])]
            /\ pc' = [pc EXCEPT ![p] = "stat2"]
            /\ Step(p, FALSE)
            /\ UNCHANGED <<ret, cacheVars>>
       ELSE /\ ret' = [ret EXCEPT ![p] = Err]
            /\ pc' = [pc EXCEPT ![p] = "done"]
            /\ Step(p, TRUE)
            /\ fileCache' = [x \in (DOMAIN fileCache) \ {filePath[p]} |-> fileCache[x]]
            /\ fileMtimes' = [x \in (DOMAIN fileMtimes) \ {filePath[p]} |-> fileMtimes[x]]
            /\ UNCHANGED content
    /\ UNCHANGED <<uiVars, ctxVars, extVars, fsVars, mutexVars, filePath, info,
                   prev, quietCur, quietPrev, modified>>

\* data, err := os.ReadFile(filePath)
Read(p) ==
    /\ pc[p] = "read"
    /\ reads' = IF p = Observed THEN reads + 1 ELSE reads
    /\ IF ReadOk(filePath[p])
       THEN /\ content' = [content EXCEPT ![p] = ReadFile(filePath[p])]
            /\ pc' = [pc EXCEPT ![p] = "stat2"]
            /\ Step(p, FALSE)
            /\ UNCHANGED ret
       ELSE /\ ret' = [ret EXCEPT ![p] = Err]
            /\ pc' = [pc EXCEPT ![p] = "done"]
            /\ Step(p, TRUE)
            /\ UNCHANGED content
    /\ UNCHANGED <<uiVars, ctxVars, extVars, fsVars, cacheVars, mutexVars, filePath, info,
                   prev, quietCur, quietPrev, modified>>

\* info, err := os.Stat(filePath) after the read
Stat2(p) ==
    /\ pc[p] = "stat2"
    /\ IF StatOk(filePath[p])
       THEN /\ info' = [info EXCEPT ![p] = ModTime(filePath[p])]
            /\ pc' = [pc EXCEPT ![p] = "lock"]
            /\ Step(p, FALSE)
            /\ UNCHANGED <<ret, content>>
       ELSE /\ ret' = [ret EXCEPT ![p] = Ok(content[p])]
            /\ pc' = [pc EXCEPT ![p] = "done"]
            /\ content' = [content EXCEPT ![p] = <<>>]
            /\ Step(p, TRUE)
            /\ UNCHANGED info
    /\ UNCHANGED <<uiVars, ctxVars, extVars, fsVars, cacheVars, mutexVars, filePath,
                   reads, prev, quietCur, quietPrev, modified>>

\* cm.mutex.Lock()
Lock(p) ==
    /\ pc[p] = "lock"
    /\ readers = {}
    /\ writer = 0
    /\ writer' = p
    /\ pc' = [pc EXCEPT ![p] = "store"]
    /\ UNCHANGED <<uiVars, ctxVars, extVars, fsVars, cacheVars, readers, filePath, content, info, ret, histVars>>

\* a stored time in another unit than the one the fast path compares with
StoredMtimeOtherUnit(p) == info[p] * 1000

\* the time stored with the content
StoredMtime(p) == info[p]

\* cm.fileCache[filePath] = content; cm.fileMtimes[filePath] = mtime; Unlock
Store(p) ==
    /\ pc[p] = "store"
    /\ fileCache' = Put(fileCache, filePath[p], content[p])
    /\ fileMtimes' = Put(fileMtimes, filePath[p], StoredMtime(p))
    /\ writer' = 0
    /\ ret' = [ret EXCEPT ![p] = Ok(content[p])]
    /\ pc' = [pc EXCEPT ![p] = "done"]
    /\ content' = [content EXCEPT ![p] = <<>>]
    /\ info' = [info EXCEPT ![p] = 0]
    /\ IF p = Observed
       THEN Step(p, TRUE)
       ELSE /\ storedSince' = (storedSince \/ filePath[p] = filePath[Observed])
            /\ UNCHANGED othersStored
    /\ UNCHANGED <<uiVars, ctxVars, extVars, fsVars, readers, filePath, reads, prev, quietCur, quietPrev, modified>>

\* the call returns to its caller
Return(p) ==
    /\ pc[p] = "done"
    /\ pc' = [pc EXCEPT ![p] = "idle"]
    /\ ret' = [ret EXCEPT ![p] = NoRet]
    /\ IF p = Observed
       THEN /\ prev' = [called |-> TRUE, path |-> filePath[p], err |-> ret[p].err,
                        content |-> ret[p].content]
            /\ reads' = 0
            /\ modified' = FALSE
            /\ othersStored' = FALSE
            /\ UNCHANGED <<quietCur, quietPrev, storedSince>>
       ELSE UNCHANGED histVars
    /\ UNCHANGED <<uiVars, ctxVars, extVars, fsVars, cacheVars, mutexVars, filePath, content, info>>

GetFileContent(p) ==
    \/ \E f \in CachePaths : Call(p, f)
    \/ RLock(p)
    \/ Stat1(p)
    \/ Read(p)
    \/ Stat2(p)
    \/ Lock(p)
    \/ Store(p)
    \/ Return(p)


(***************************************************************************)
(* GetFileContext: the text built by one caller. Text is a sequence of     *)
(* characters; Tick stands for the backquote character.                    *)
(***************************************************************************)
Tick == "tick"

\* "File: "
StrFile ==
    <<"F", "i", "l", "e", ":", " ">>
\* "Related file: "
StrRelated ==
    <<"R", "e", "l", "a", "t", "e", "d", " ", "f", "i", "l", "e", ":", " ">>
\* "\n\n```\n"
StrOpen ==
    <<"\n", "\n", Tick, Tick, Tick, "\n">>
\* "\n```\n\n"
StrClose ==
    <<"\n", Tick, Tick, Tick, "\n", "\n">>
\* "(Additional related file "
StrNoticeHead ==
    <<"(", "A", "d", "d", "i", "t", "i", "o", "n", "a", "l", " ", "r", "e",
      "l", "a", "t", "e", "d", " ", "f", "i", "l", "e", " ">>
\* " not included due to context length limits)\n"
StrNoticeTail ==
    <<" ", "n", "o", "t", " ", "i", "n", "c", "l", "u", "d", "e", "d", " ",
      "d", "u", "e", " ", "t", "o", " ", "c", "o", "n", "t", "e", "x", "t",
      " ", "l", "e", "n", "g", "t", "h", " ", "l", "i", "m", "i", "t", "s",
      ")", "\n">>

\* fmt.Sprintf("File: %s\n\n```\n%s\n```\n\n", relPath, content)
PrimaryBlock(relPath, c) == StrFile \o relPath \o StrOpen \o c \o StrClose

\* fmt.Sprintf("Related file: %s\n\n```\n%s\n```\n\n", relPath, relatedContent)
RelatedBlock(relPath, c) == StrRelated \o relPath \o StrOpen \o c \o StrClose

\* fmt.Sprintf("(Additional related file %s not included due to context length limits)\n", relPath)
Notice(relPath) == StrNoticeHead \o relPath \o StrNoticeTail

\* filepath.Rel(base, target) for a target below base
Rel(base, target) ==
    IF target = base THEN <<".">>
    ELSE IF /\ Len(target) > Len(base) + 1
       /\ SubSeq(target, 1, Len(base) + 1) = base \o <<"/">>
    THEN SubSeq(target, Len(base) + 2, Len(target))
    ELSE <<>>

\* the calls GetFileContent makes on the filesystem and the cache, run without
\* interruption: the result, and the two maps after it
GetFileContentAtomic(path) ==
    IF path \in DOMAIN fileCache /\ CacheHit(path)
    THEN [err |-> FALSE, content |-> fileCache[path],
          cache |-> fileCache, mtimes |-> fileMtimes]
    ELSE IF ~ReadOk(path)
    THEN [err |-> TRUE, content |-> <<>>, cache |-> fileCache, mtimes |-> fileMtimes]
    ELSE IF StatOk(path)
    THEN [err |-> FALSE, content |-> ReadFile(path),
          cache |-> Put(fileCache, path, ReadFile(path)),
          mtimes |-> Put(fileMtimes, path, ModTime(path))]
    ELSE [err |-> FALSE, content |-> ReadFile(path),
          cache |-> fileCache, mtimes |-> fileMtimes]

\* sequences over S of length at most n
SeqUpTo(S, n) == UNION {[1..k -> S] : k \in 0..n}

\* what findRelatedFiles may return: paths it found on disk, in any order
RelatedLists == SeqUpTo({f \in CtxPaths : fs[f].exists}, MaxRelated)

\* cm.maxContextLen = maxLen
SetMaxContextLength(maxLen) ==
    /\ maxContextLen' = maxLen
    /\ UNCHANGED <<fs, fileCache, fileMtimes, cpc, cpath, relatedFiles, idx, context,
                   totalLength, cret, sections, tests, callerVars, extVars, uiVars>>

\* a running total that leaves the primary block out
InitialTotalZero(builder) == 0

\* totalLength := context.Len()
InitialTotal(builder) == Len(builder)

\* a limit test that forgets the running total
ExceedsAlone(total, fileContext) == Len(fileContext) > maxContextLen

\* totalLength+len(fileContext) > cm.maxContextLen
Exceeds(total, fileContext) == total + Len(fileContext) > maxContextLen

\* a skipped file that ends the loop (break)
AfterNoticeBreak(i) == Len(relatedFiles) + 1

\* continue: the loop goes on with the next related file
AfterNotice(i) == i + 1

\* a related file that is taken whether or not it could be read
RelatedFailsNever(r) == FALSE

\* relatedContent, err := cm.GetFileContent(relatedFile); if err != nil
RelatedFails(r) == r.err

\* a primary block cut to the budget
PrimaryWrittenCut(block) ==
    SubSeq(block, 1, IF Len(block) < maxContextLen THEN Len(block) ELSE maxContextLen)

\* context.WriteString of the primary block
PrimaryWritten(block) == block

\* GetFileContext(f) up to the loop: the primary content, its block, the related files
BuildStart(f) ==
    /\ cpc = "idle"
    /\ cpath' = f
    /\ LET r == GetFileContentAtomic(f)
           block == PrimaryWritten(PrimaryBlock(Rel(rootPath, f), r.content))
       IN /\ fileCache' = r.cache
          /\ fileMtimes' = r.mtimes
          /\ IF r.err
             THEN /\ cret' = Err
                  /\ cpc' = "done"
                  /\ UNCHANGED <<relatedFiles, idx, context, totalLength, sections, tests>>
             ELSE /\ context' = block
                  /\ tests' = {}
                  /\ sections' = <<[kind |-> "primary", at |-> 0, size |-> Len(block)]>>
                  /\ \E rel \in RelatedLists : relatedFiles' = rel
                  /\ totalLength' = InitialTotal(block)
                  /\ idx' = 1
                  /\ cpc' = "loop"
                  /\ UNCHANGED cret
    /\ UNCHANGED <<fs, maxContextLen, callerVars, extVars, uiVars>>

\* one iteration of the loop over relatedFiles
BuildIter ==
    /\ cpc = "loop"
    /\ idx <= Len(relatedFiles)
    /\ LET relatedFile == relatedFiles[idx]
           r == GetFileContentAtomic(relatedFile)
           relPath == Rel(rootPath, relatedFile)
           fileContext == RelatedBlock(relPath, r.content)
       IN /\ fileCache' = r.cache
          /\ fileMtimes' = r.mtimes
          /\ IF RelatedFails(r)
             THEN /\ idx' = idx + 1
                  /\ UNCHANGED <<context, totalLength, sections, tests>>
             ELSE IF Exceeds(totalLength, fileContext)
             THEN /\ context' = context \o Notice(relPath)
                  /\ tests' = tests \cup {maxContextLen}
                  /\ sections' = Append(sections, [kind |-> "notice", at |-> idx,
                                                   size |-> Len(Notice(relPath))])
                  /\ idx' = AfterNotice(idx)
                  /\ UNCHANGED totalLength
             ELSE /\ context' = context \o fileContext
                  /\ tests' = tests \cup {maxContextLen}
                  /\ sections' = Append(sections, [kind |-> "related", at |-> idx,
                                                   size |-> Len(fileContext)])
                  /\ totalLength' = totalLength + Len(fileContext)
                  /\ idx' = idx + 1
    /\ UNCHANGED <<fs, maxContextLen, cpc, cpath, relatedFiles, cret, callerVars, extVars, uiVars>>

\* return context.String(), nil
BuildReturn ==
    /\ cpc = "loop"
    /\ idx > Len(relatedFiles)
    /\ cret' = Ok(context)
    /\ cpc' = "done"
    /\ UNCHANGED <<fs, fileCache, fileMtimes, maxContextLen, cpath, relatedFiles, idx,
                   context, totalLength, sections, tests, callerVars, extVars, uiVars>>

\* the caller takes the result; the locals of the call are gone
BuildDone ==
    /\ cpc = "done"
    /\ cpc' = "idle"
    /\ relatedFiles' = <<>>
    /\ idx' = 0
    /\ context' = <<>>
    /\ totalLength' = 0
    /\ cret' = NoRet
    /\ sections' = <<>>
    /\ tests' = {}
    /\ UNCHANGED <<fs, fileCache, fileMtimes, maxContextLen, cpath, callerVars, extVars, uiVars>>

GetFileContext ==
    \/ \E f \in {PathA} : BuildStart(f)
    \/ BuildIter
    \/ BuildReturn
    \/ BuildDone

\* the thread that calls AddIgnorePattern, as a holder of cm.mutex
Adder == NumProcs + 1

\* the patterns AddIgnorePattern is called with
Patterns == {<<"d", "/">>, <<"*", ".", "g", "o">>, <<"[">>}

\* the patterns added since NewContextManager
Added ==
    Len(ignoreDirs) + Len(ignoreFiles)
        - Len(NewIgnoreDirs(isKaliLinux)) - Len(DefaultIgnoreFiles)

\* AddIgnorePattern(pattern): cm.mutex.Lock()
AddLock(pattern) ==
    /\ apc = "idle"
    /\ Added < MaxAdds
    /\ writer = 0
    /\ readers = {}
    /\ writer' = Adder
    /\ apattern' = pattern
    /\ apc' = "append"
    /\ UNCHANGED <<ignoreDirs, ignoreFiles, isKaliLinux, tree, readers>>
    /\ UNCHANGED <<shouldVars, walkVars, relVars>>
    /\ UNCHANGED <<fs, clock, written, cacheVars, localVars, histVars, ctxVars, uiVars>>

\* the append to one of the lists, and the deferred cm.mutex.Unlock()
AddAppend ==
    /\ apc = "append"
    /\ IF HasSuffix(apattern, <<"/">>)
       THEN /\ ignoreDirs' = Append(ignoreDirs, TrimSuffix(apattern, <<"/">>))
            /\ UNCHANGED ignoreFiles
       ELSE /\ ignoreFiles' = Append(ignoreFiles, apattern)
            /\ UNCHANGED ignoreDirs
    /\ writer' = 0
    /\ apattern' = <<>>
    /\ apc' = "idle"
    /\ UNCHANGED <<isKaliLinux, tree, readers>>
    /\ UNCHANGED <<shouldVars, walkVars, relVars>>
    /\ UNCHANGED <<fs, clock, written, cacheVars, localVars, histVars, ctxVars, uiVars>>

AddIgnorePattern ==
    \/ \E pattern \in Patterns : AddLock(pattern)
    \/ AddAppend

\* a stat error that makes the path ignored
IgnoreOnStatErrorTrue == TRUE

\* if err != nil { return false }
IgnoreOnStatError == FALSE

\* every path is tested against the file patterns
IsDirNever(fi) == FALSE

\* if info.IsDir() ... else ...
IsDir(fi) == fi.isDir

\* ShouldIgnore(path)
ShouldIgnore(path) ==
    LET base == Base(path)
        fi == Stat(path)
    IN IF fi.err THEN IgnoreOnStatError
       ELSE IF IsDir(fi)
       THEN \E i \in 1..Len(ignoreDirs) : base = ignoreDirs[i]
       ELSE \E i \in 1..Len(ignoreFiles) :
               LET m == Match(ignoreFiles[i], base) IN ~m.err /\ m.matched

\* a direct call of ShouldIgnore(path): base name and os.Stat
ShouldStat(path) ==
    /\ spc = "idle"
    /\ spath' = path
    /\ sret' = (Stat(path).err /\ IgnoreOnStatError)
    /\ spc' = IF Stat(path).err THEN "done" ELSE "scan"
    /\ UNCHANGED <<ignVars, tree, mutexVars, walkVars, relVars>>
    /\ UNCHANGED <<fs, clock, written, cacheVars, localVars, histVars, ctxVars, uiVars>>

\* the loop over cm.ignoreDirs or cm.ignoreFiles, with no lock taken
ShouldScan ==
    /\ spc = "scan"
    /\ sret' = ShouldIgnore(spath)
    /\ spc' = "done"
    /\ UNCHANGED <<spath, ignVars, tree, mutexVars, walkVars, relVars>>
    /\ UNCHANGED <<fs, clock, written, cacheVars, localVars, histVars, ctxVars, uiVars>>

\* the caller takes the result
ShouldReturn ==
    /\ spc = "done"
    /\ spc' = "idle"
    /\ spath' = rootPath
    /\ sret' = FALSE
    /\ UNCHANGED <<ignVars, tree, mutexVars, walkVars, relVars>>
    /\ UNCHANGED <<fs, clock, written, cacheVars, localVars, histVars, ctxVars, uiVars>>

ShouldIgnoreCall ==
    \/ \E path \in Nodes : ShouldStat(path)
    \/ ShouldScan
    \/ ShouldReturn

\* the queries GetRelevantFiles is called with
Queries == {<<"X">>, <<"d", "/">>, <<"o">>}

(***************************************************************************)
(* filepath.Walk, one callback at a time. todo holds the paths Walk still  *)
(* has to hand to the callback, in order: a directory that is entered puts *)
(* its sorted entries in front.                                            *)
(***************************************************************************)
\* what Walk does after the callback returned fnErr for the head of todo
WalkOn(path, fi, fnErr) ==
    IF fnErr = "err" THEN <<>>
    ELSE IF WalkErr(path) THEN Tail(todo)
    ELSE IF fi.isDir
    THEN IF fnErr = "SkipDir" THEN Tail(todo) ELSE ChildPaths(path) \o Tail(todo)
    ELSE IF fnErr = "SkipDir"
    THEN SelectSeq(Tail(todo), LAMBDA q : Dir(q) # Dir(path))
    ELSE Tail(todo)

\* an ignored directory whose entries are walked all the same
OnIgnoredDirNil == "nil"

\* return filepath.SkipDir, for an ignored directory
OnIgnoredDir == "SkipDir"

\* "Project Structure:\n"
StrHeader == <<"P", "r", "o", "j", "e", "c", "t", " ", "S", "t", "r", "u", "c", "t", "u", "r", "e", ":", "\n">>

\* strings.Repeat("  ", depth)
Indent(depth) == [i \in 1..(2 * depth) |-> " "]

\* len(strings.Split(relPath, string(os.PathSeparator))) - 1
Depth(relPath) == Cardinality({i \in 1..Len(relPath) : relPath[i] = "/"})

\* fmt.Sprintf("%s%s/\n", indent, info.Name()) or fmt.Sprintf("%s%s\n", ...)
StructureLine(path, fi) ==
    Indent(Depth(Rel(rootPath, path))) \o Base(path)
        \o (IF fi.isDir THEN <<"/">> ELSE <<>>) \o <<"\n">>

\* the callback of GetProjectStructure: what it returns and what it writes
StructureFn(path, fi) ==
    IF WalkErr(path)
    THEN [ret |-> "err", text |-> <<>>, shown |-> FALSE]
    ELSE IF path # rootPath /\ ShouldIgnore(path)
    THEN [ret |-> IF fi.isDir THEN OnIgnoredDir ELSE "nil", text |-> <<>>,
          shown |-> FALSE]
    ELSE IF Rel(rootPath, path) = <<".">>
    THEN [ret |-> "nil", text |-> <<>>, shown |-> FALSE]
    ELSE [ret |-> "nil", text |-> StructureLine(path, fi), shown |-> TRUE]

\* a match on the base name alone
MatchesName(path, q) == Contains(ToLower(Base(path)), ToLower(q))

\* strings.Contains(strings.ToLower(relPath), strings.ToLower(query))
Matches(path, q) == Contains(ToLower(Rel(rootPath, path)), ToLower(q))

\* the callback of GetRelevantFiles: what it returns, and relevantFiles after it
RelevantFn(path, fi) ==
    IF WalkErr(path)
    THEN [ret |-> "nil", files |-> relevantFiles]
    ELSE IF fi.isDir
    THEN [ret |-> IF ShouldIgnore(path) THEN OnIgnoredDir ELSE "nil",
          files |-> relevantFiles]
    ELSE IF ShouldIgnore(path)
    THEN [ret |-> "nil", files |-> relevantFiles]
    ELSE LET files == IF Matches(path, query)
                      THEN Append(relevantFiles, path)
                      ELSE relevantFiles
         IN [ret |-> IF Len(files) >= maxFiles THEN "SkipDir" ELSE "nil",
             files |-> files]

\* GetProjectStructure() up to the call of filepath.Walk
StructureStart ==
    /\ wpc = "idle"
    /\ wmode' = "structure"
    /\ result' = StrHeader
    /\ todo' = <<rootPath>>
    /\ wpc' = "walk"
    /\ UNCHANGED <<listed, relevantFiles, query, maxFiles, wret, late>>
    /\ UNCHANGED <<ignVars, tree, mutexVars, shouldVars, relVars>>
    /\ UNCHANGED <<fs, clock, written, cacheVars, localVars, histVars, ctxVars, uiVars>>

\* one callback of the walk of GetProjectStructure; an error the callback
\* returns ends the walk and the call: return "", err
StructureVisit ==
    /\ wpc = "walk"
    /\ wmode = "structure"
    /\ todo # <<>>
    /\ LET path == Head(todo)
           fi == Lstat(path)
           r == StructureFn(path, fi)
       IN /\ result' = result \o r.text
          /\ listed' = IF r.shown THEN Append(listed, path) ELSE listed
          /\ todo' = WalkOn(path, fi, r.ret)
          /\ IF r.ret = "err"
             THEN wret' = Err /\ wpc' = "done"
             ELSE UNCHANGED <<wret, wpc>>
    /\ UNCHANGED <<wmode, relevantFiles, query, maxFiles, late>>
    /\ UNCHANGED <<ignVars, tree, mutexVars, shouldVars, relVars>>
    /\ UNCHANGED <<fs, clock, written, cacheVars, localVars, histVars, ctxVars, uiVars>>

\* return result.String(), nil
StructureReturn ==
    /\ wpc = "walk"
    /\ wmode = "structure"
    /\ todo = <<>>
    /\ wret' = Ok(result)
    /\ wpc' = "done"
    /\ UNCHANGED <<wmode, todo, result, listed, relevantFiles, query, maxFiles, late>>
    /\ UNCHANGED <<ignVars, tree, mutexVars, shouldVars, relVars>>
    /\ UNCHANGED <<fs, clock, written, cacheVars, localVars, histVars, ctxVars, uiVars>>

GetProjectStructure ==
    \/ StructureStart
    \/ StructureVisit
    \/ StructureReturn

\* GetRelevantFiles(q, m) up to the call of filepath.Walk
RelevantStart(q, m) ==
    /\ wpc = "idle"
    /\ wmode' = "relevant"
    /\ query' = q
    /\ maxFiles' = m
    /\ relevantFiles' = <<>>
    /\ todo' = <<rootPath>>
    /\ wpc' = "walk"
    /\ UNCHANGED <<result, listed, wret, late>>
    /\ UNCHANGED <<ignVars, tree, mutexVars, shouldVars, relVars>>
    /\ UNCHANGED <<fs, clock, written, cacheVars, localVars, histVars, ctxVars, uiVars>>

\* one callback of the walk of GetRelevantFiles
RelevantVisit ==
    /\ wpc = "walk"
    /\ wmode = "relevant"
    /\ todo # <<>>
    /\ LET path == Head(todo)
           fi == Lstat(path)
           r == RelevantFn(path, fi)
       IN /\ relevantFiles' = r.files
          /\ todo' = WalkOn(path, fi, r.ret)
          /\ late' = (late \/ (~fi.isDir /\ Len(relevantFiles) >= maxFiles))
    /\ UNCHANGED <<wpc, wmode, result, listed, query, maxFiles, wret>>
    /\ UNCHANGED <<ignVars, tree, mutexVars, shouldVars, relVars>>
    /\ UNCHANGED <<fs, clock, written, cacheVars, localVars, histVars, ctxVars, uiVars>>

\* return relevantFiles, err
RelevantReturn ==
    /\ wpc = "walk"
    /\ wmode = "relevant"
    /\ todo = <<>>
    /\ wret' = Ok(relevantFiles)
    /\ wpc' = "done"
    /\ UNCHANGED <<wmode, todo, result, listed, relevantFiles, query, maxFiles, late>>
    /\ UNCHANGED <<ignVars, tree, mutexVars, shouldVars, relVars>>
    /\ UNCHANGED <<fs, clock, written, cacheVars, localVars, histVars, ctxVars, uiVars>>

GetRelevantFiles ==
    \/ \E q \in Queries, m \in 1..MaxLimit : RelevantStart(q, m)
    \/ RelevantVisit
    \/ RelevantReturn

\* the caller takes the result; the locals of the walk are gone
WalkDone ==
    /\ wpc = "done"
    /\ wpc' = "idle"
    /\ wmode' = "none"
    /\ todo' = <<>>
    /\ result' = <<>>
    /\ listed' = <<>>
    /\ relevantFiles' = <<>>
    /\ query' = <<>>
    /\ maxFiles' = 0
    /\ wret' = NoRet
    /\ late' = FALSE
    /\ UNCHANGED <<ignVars, tree, mutexVars, shouldVars, relVars>>
    /\ UNCHANGED <<fs, clock, written, cacheVars, localVars, histVars, ctxVars, uiVars>>

(***************************************************************************)
(* findRelatedFiles: the import scans of Go, JS/TS and Python source files *)
(* and the scan for files of the same base name.                           *)
(***************************************************************************)
\* strings.HasPrefix(s, prefix)
HasPrefix(s, prefix) ==
    Len(s) >= Len(prefix) /\ SubSeq(s, 1, Len(prefix)) = prefix

\* strings.TrimPrefix(s, prefix)
TrimPrefix(s, prefix) ==
    IF HasPrefix(s, prefix) THEN SubSeq(s, Len(prefix) + 1, Len(s)) ELSE s

\* strings.Trim(s, cutset): without the leading and trailing characters of cutset
RECURSIVE Trim(_, _)
Trim(s, cutset) ==
    IF s = <<>> THEN s
    ELSE IF s[1] \in cutset THEN Trim(Tail(s), cutset)
    ELSE IF s[Len(s)] \in cutset THEN Trim(SubSeq(s, 1, Len(s) - 1), cutset)
    ELSE s

\* strings.TrimSpace(s)
TrimSpace(s) == Trim(s, {" ", "\t", "\n", "\r"})

\* strings.Split(s, sep) for a separator of one character
RECURSIVE Split(_, _)
Split(s, sep) ==
    IF \A i \in 1..Len(s) : s[i] # sep THEN <<s>>
    ELSE LET k == CHOOSE i \in 1..Len(s) :
                      s[i] = sep /\ \A j \in 1..(i - 1) : s[j] # sep
         IN <<SubSeq(s, 1, k - 1)>> \o Split(SubSeq(s, k + 1, Len(s)), sep)

\* filepath.Clean on the elements of a rooted path: "" and "." are dropped,
\* ".." drops the element before it
RECURSIVE CleanParts(_, _)
CleanParts(parts, acc) ==
    IF parts = <<>> THEN acc
    ELSE IF Head(parts) \in {<<>>, <<".">>} THEN CleanParts(Tail(parts), acc)
    ELSE IF Head(parts) = <<".", ".">>
    THEN CleanParts(Tail(parts),
                    IF acc = <<>> THEN acc ELSE SubSeq(acc, 1, Len(acc) - 1))
    ELSE CleanParts(Tail(parts), Append(acc, Head(parts)))

RECURSIVE Rooted(_)
Rooted(parts) ==
    IF parts = <<>> THEN <<>> ELSE <<"/">> \o Head(parts) \o Rooted(Tail(parts))

\* filepath.Join(dir, elem) for a rooted dir: joined with a separator and cleaned
JoinClean(dir, elem) ==
    LET parts == CleanParts(Split(dir \o <<"/">> \o elem, "/"), <<>>)
    IN IF parts = <<>> THEN <<"/">> ELSE Rooted(parts)

\* filepath.Ext(name): the suffix from the last dot of the name, or ""
Ext(name) ==
    IF \A i \in 1..Len(name) : name[i] # "." THEN <<>>
    ELSE SubSeq(name,
                CHOOSE i \in 1..Len(name) :
                    name[i] = "." /\ \A j \in (i + 1)..Len(name) : name[j] # ".",
                Len(name))

StrImport == <<"i", "m", "p", "o", "r", "t", " ">>
StrImportParen == <<"i", "m", "p", "o", "r", "t", "(">>
StrImportBlock == <<"i", "m", "p", "o", "r", "t", " ", "(">>
StrImportQuote == <<"i", "m", "p", "o", "r", "t", " ", "\"">>
StrGoExt == <<".", "g", "o">>

\* the entries of a directory that are no directories and have the extension:
\* os.ReadDir, !entry.IsDir() && filepath.Ext(entry.Name()) == ext
FilesWithExt(dir, ext) ==
    LET names == SelectSeq(ReadDirNames(dir),
                           LAMBDA n : ~Lstat(Join(dir, n)).isDir /\ Ext(n) = ext)
    IN [i \in 1..Len(names) |-> Join(dir, names[i])]

\* resolvedPath := filepath.Join(dir, importPath)
Resolve(dir, importPath) == JoinClean(dir, importPath)

\* what one line of a Go file adds to relatedFiles
GoImport(rawLine, dir) ==
    LET line == TrimSpace(rawLine)
        importPath == Trim(TrimPrefix(line, StrImport), {"\""})
        resolvedPath == Resolve(dir, importPath)
    IN IF ~(\/ HasPrefix(line, StrImport)
            \/ HasPrefix(line, StrImportParen) /\ ~HasSuffix(line, <<")">>))
       THEN <<>>
       ELSE IF HasPrefix(line, StrImportBlock) THEN <<>>
       ELSE IF ~HasPrefix(line, StrImportQuote) THEN <<>>
       ELSE IF ~(HasPrefix(importPath, <<".", "/">>)
                    \/ HasPrefix(importPath, <<".", ".", "/">>))
       THEN <<>>
       ELSE IF ~Stat(resolvedPath).err /\ ~Stat(resolvedPath).isDir
       THEN <<resolvedPath>>
       ELSE IF ~Stat(resolvedPath).err /\ Stat(resolvedPath).isDir
       THEN FilesWithExt(resolvedPath, StrGoExt)
       ELSE <<>>

\* case ".go": the loop over the lines of content
RECURSIVE GoImports(_, _)
GoImports(lines, dir) ==
    IF lines = <<>> THEN <<>>
    ELSE GoImport(Head(lines), dir) \o GoImports(Tail(lines), dir)

\* a scan that does not skip the directories among the entries
SameBaseNameDirs(path) ==
    LET dir == Dir(path)
        baseName == Base(path)
        baseWithoutExt == TrimSuffix(baseName, Ext(baseName))
        names == SelectSeq(ReadDirNames(dir),
                           LAMBDA n : /\ TrimSuffix(n, Ext(n)) = baseWithoutExt
                                      /\ n # baseName)
    IN [i \in 1..Len(names) |-> Join(dir, names[i])]

\* the files of the source's directory with its base name and another extension
SameBaseName(path) ==
    LET dir == Dir(path)
        baseName == Base(path)
        baseWithoutExt == TrimSuffix(baseName, Ext(baseName))
        names == SelectSeq(ReadDirNames(dir),
                           LAMBDA n : /\ ~Lstat(Join(dir, n)).isDir
                                      /\ TrimSuffix(n, Ext(n)) = baseWithoutExt
                                      /\ n # baseName)
    IN [i \in 1..Len(names) |-> Join(dir, names[i])]

\* strings.Split(s, sep) for a separator of one or more characters
RECURSIVE SplitStr(_, _)
SplitStr(s, sep) ==
    LET at(i) == i + Len(sep) - 1 <= Len(s) /\ SubSeq(s, i, i + Len(sep) - 1) = sep
    IN IF \A i \in 1..Len(s) : ~at(i) THEN <<s>>
       ELSE LET k == CHOOSE i \in 1..Len(s) : at(i) /\ \A j \in 1..(i - 1) : ~at(j)
            IN <<SubSeq(s, 1, k - 1)>> \o SplitStr(SubSeq(s, k + Len(sep), Len(s)), sep)

\* strings.ReplaceAll(s, old, new) for strings of one character
ReplaceAll(s, old, new) == [i \in 1..Len(s) |-> IF s[i] = old THEN new ELSE s[i]]

StrFrom == <<"f", "r", "o", "m">>
StrFromSp == <<"f", "r", "o", "m", " ">>
StrRequire == <<"r", "e", "q", "u", "i", "r", "e", "(">>
StrImportWord == <<"i", "m", "p", "o", "r", "t">>
StrJsExt == <<".", "j", "s">>
StrTsExt == <<".", "t", "s">>
StrPyExt == <<".", "p", "y">>

\* the extensions the JS/TS scan tries, in its order
JsExtensions == <<StrJsExt, StrTsExt, <<".", "j", "s", "x">>, <<".", "t", "s", "x">>>>

\* the first of resolvedPath + ext that is there and is no directory
RECURSIVE WithExtension(_, _)
WithExtension(resolvedPath, exts) ==
    IF exts = <<>> THEN <<>>
    ELSE LET pathWithExt == resolvedPath \o Head(exts)
         IN IF ~Stat(pathWithExt).err /\ ~Stat(pathWithExt).isDir
            THEN <<pathWithExt>>
            ELSE WithExtension(resolvedPath, Tail(exts))

\* what one line of a JS/TS file adds to relatedFiles
JsImport(rawLine, dir) ==
    LET line == TrimSpace(rawLine)
        parts == SplitStr(line, StrFrom)
        importPath ==
            IF HasPrefix(line, StrImport)
            THEN IF Len(parts) > 1
                 THEN Trim(TrimSpace(parts[2]), {"'", "\"", ";", "\r", "\n"})
                 ELSE <<>>
            ELSE Trim(TrimSpace(TrimSuffix(TrimPrefix(line, StrRequire), <<")", ";">>)),
                      {"'", "\""})
        resolvedPath == Resolve(dir, importPath)
    IN IF ~(HasPrefix(line, StrImport) \/ HasPrefix(line, StrRequire)) THEN <<>>
       ELSE IF ~(/\ importPath # <<>>
                 /\ \/ HasPrefix(importPath, <<".", "/">>)
                    \/ HasPrefix(importPath, <<".", ".", "/">>))
       THEN <<>>
       ELSE IF ~Stat(resolvedPath).err
       THEN IF ~Stat(resolvedPath).isDir THEN <<resolvedPath>> ELSE <<>>
       ELSE WithExtension(resolvedPath, JsExtensions)

\* case ".js", ".ts": the loop over the lines of content
RECURSIVE JsImports(_, _)
JsImports(lines, dir) ==
    IF lines = <<>> THEN <<>>
    ELSE JsImport(Head(lines), dir) \o JsImports(Tail(lines), dir)

\* what one line of a Python file adds to relatedFiles
PyImport(rawLine, dir) ==
    LET line == TrimSpace(rawLine)
        parts == SplitStr(line, StrImportWord)
        module == TrimSpace(TrimPrefix(parts[1], StrFromSp))
        modulePath == IF module = <<".">> THEN <<>> ELSE ReplaceAll(module, ".", "/")
        resolvedDir == Resolve(dir, modulePath)
    IN IF ~HasPrefix(line, StrFromSp) THEN <<>>
       ELSE IF ~HasPrefix(module, <<".">>) THEN <<>>
       ELSE IF ~Stat(resolvedDir).err /\ Stat(resolvedDir).isDir
       THEN FilesWithExt(resolvedDir, StrPyExt)
       ELSE <<>>

\* case ".py": the loop over the lines of content
RECURSIVE PyImports(_, _)
PyImports(lines, dir) ==
    IF lines = <<>> THEN <<>>
    ELSE PyImport(Head(lines), dir) \o PyImports(Tail(lines), dir)

\* the switch on the extension of the source file
LanguageImports(path, c) ==
    IF Ext(path) = StrGoExt THEN GoImports(Split(c, "\n"), Dir(path))
    ELSE IF Ext(path) \in {StrJsExt, StrTsExt} THEN JsImports(Split(c, "\n"), Dir(path))
    ELSE IF Ext(path) = StrPyExt THEN PyImports(Split(c, "\n"), Dir(path))
    ELSE <<>>

\* findRelatedFiles(path, c)
findRelatedFiles(path, c) == LanguageImports(path, c) \o SameBaseName(path)

\* a call findRelatedFiles(PathA, c)
FindRelated(c) ==
    /\ rpc = "idle"
    /\ rfile' = PathA
    /\ rcontent' = c
    /\ found' = findRelatedFiles(PathA, c)
    /\ rpc' = "done"
    /\ UNCHANGED <<ignVars, tree, mutexVars, shouldVars, walkVars>>
    /\ UNCHANGED <<fs, clock, written, cacheVars, localVars, histVars, ctxVars, uiVars>>

\* a call findRelatedFiles(path, c)
FindRelatedOn(path, c) ==
    /\ rpc = "idle"
    /\ rfile' = path
    /\ rcontent' = c
    /\ found' = findRelatedFiles(path, c)
    /\ rpc' = "done"
    /\ UNCHANGED <<ignVars, tree, mutexVars, shouldVars, walkVars>>
    /\ UNCHANGED <<fs, clock, written, cacheVars, localVars, histVars, ctxVars, uiVars>>

\* the caller takes the result
FindDone ==
    /\ rpc = "done"
    /\ rpc' = "idle"
    /\ rcontent' = <<>>
    /\ found' = <<>>
    /\ UNCHANGED <<rfile, ignVars, tree, mutexVars, shouldVars, walkVars>>
    /\ UNCHANGED <<fs, clock, written, cacheVars, localVars, histVars, ctxVars, uiVars>>

(***************************************************************************)
(* Spec: concurrent callers of GetFileContent while the file changes.      *)
(***************************************************************************)
Next ==
    \/ \E p \in Procs : GetFileContent(p)
    \/ \E f \in CachePaths : Modify(f)
    \/ \E f \in CachePaths : Remove(f)
    \/ \E f \in CachePaths : Create(f)

Spec == Init /\ [][Next]_vars

(***************************************************************************)
(* SpecCtx: one host thread that sets the budget and builds contexts over  *)
(* a project whose files do not change.                                    *)
(***************************************************************************)
InitCtx ==
    /\ InitPlain
    /\ clock = 1
    /\ fs \in {f \in [CtxPaths -> FileStates] : \A g \in CtxPaths : f[g] \in Choices(g)}
    /\ written = {<<f, 1, fs[f].content>> : f \in {g \in CtxPaths : fs[g].exists}}
    /\ InitManager
    /\ InitCallers
    /\ InitContext

NextCtx ==
    \/ \E n \in 0..MaxBudget : cpc = "idle" /\ SetMaxContextLength(n)
    \/ GetFileContext

SpecCtx == InitCtx /\ [][NextCtx]_vars

(***************************************************************************)
(* SpecBudget: as SpecCtx, with a second thread that calls                 *)
(* SetMaxContextLength at any time, also while a context is being built.   *)
(* SetMaxContextLength holds cm.mutex for its assignment only, and the     *)
(* test of GetFileContext reads cm.maxContextLen without the mutex, so the *)
(* assignment falls between any two steps of the builder.                  *)
(***************************************************************************)
\* the budgets the second thread sets
Budgets == {0, 54, MaxBudget}

NextBudget ==
    \/ \E n \in Budgets : SetMaxContextLength(n)
    \/ GetFileContext

SpecBudget == InitCtx /\ [][NextBudget]_vars

(***************************************************************************)
(* SpecWalk: one host thread that adds ignore patterns and walks the       *)
(* project tree, one call after the other.                                 *)
(***************************************************************************)
InitWalk ==
    /\ InitUI
    /\ isKaliLinux \in BOOLEAN
    /\ tree \in Trees
    /\ InitIgnoreCallers
    /\ InitRelatedCaller
    /\ clock = 1
    /\ fs = [f \in CtxPaths |-> Missing]
    /\ written = {}
    /\ InitManager
    /\ InitCallers
    /\ InitContext

NextWalk ==
    \/ \E pattern \in Patterns : wpc = "idle" /\ AddLock(pattern)
    \/ AddAppend
    \/ apc = "idle" /\ StructureStart
    \/ StructureVisit
    \/ StructureReturn
    \/ \E q \in Queries, m \in 1..MaxLimit : apc = "idle" /\ RelevantStart(q, m)
    \/ RelevantVisit
    \/ RelevantReturn
    \/ WalkDone

SpecWalk == InitWalk /\ [][NextWalk]_vars

(***************************************************************************)
(* SpecIgnore: a thread that adds ignore patterns while another calls      *)
(* ShouldIgnore.                                                           *)
(***************************************************************************)
NextIgnore ==
    \/ AddIgnorePattern
    \/ ShouldIgnoreCall

SpecIgnore == InitWalk /\ [][NextIgnore]_vars

(***************************************************************************)
(* SpecRelated: findRelatedFiles on the Go file a.go, for the contents and *)
(* the directories below.                                                  *)
(***************************************************************************)
NodeB == Join(rootPath, NameB0)
NodeBC == Join(NodeB, NameC)
NodeTxt == Join(rootPath, NameTxt)

RelatedNodes == {rootPath, PathA, PathB, NodeB, NodeBC, NodeTxt}

\* a.go is there; b.go, a.txt are files or absent; b is a file, a directory
\* (with or without c.go) or absent
RelatedTrees ==
    {[n \in RelatedNodes |->
         IF n = rootPath THEN "dir"
         ELSE IF n = PathA THEN "file"
         ELSE IF n = PathB THEN bGo
         ELSE IF n = NodeB THEN b
         ELSE IF n = NodeBC THEN (IF b = "dir" THEN bC ELSE "none")
         ELSE txt] :
        bGo \in {"none", "file"}, b \in {"none", "file", "dir"},
        bC \in {"none", "file"}, txt \in {"none", "file"}}

\* import "./b"
SrcImportB == <<"i", "m", "p", "o", "r", "t", " ", "\"", ".", "/", "b", "\"">>

\* the contents findRelatedFiles is called with
Sources ==
    {SrcImportB,
     <<"i", "m", "p", "o", "r", "t", " ", "\"", ".", "/", "b", ".", "g", "o", "\"">>,
     <<"p", "a", "c", "k", "a", "g", "e", " ", "a", "\n", "\t", "i", "m", "p", "o", "r", "t", " ", "\"", ".", "/", "b", "\"", "\n">>,
     <<"i", "m", "p", "o", "r", "t", " ", "\"", "f", "m", "t", "\"">>,
     <<"i", "m", "p", "o", "r", "t", " ", "(">>,
     <<"i", "m", "p", "o", "r", "t", " ", "\"", ".", ".", "/", "p", "/", "b", "\"">>,
     <<"p", "a", "c", "k", "a", "g", "e", " ", "a">>}

InitRelated ==
    /\ InitUI
    /\ isKaliLinux \in BOOLEAN
    /\ tree \in RelatedTrees
    /\ InitIgnoreCallers
    /\ InitRelatedCaller
    /\ clock = 1
    /\ fs = [f \in CtxPaths |-> Missing]
    /\ written = {}
    /\ InitManager
    /\ InitCallers
    /\ InitContext

NextRelated ==
    \/ \E c \in Sources : FindRelated(c)
    \/ FindDone

SpecRelated == InitRelated /\ [][NextRelated]_vars


(***************************************************************************)
(* The file cache.                                                         *)
(***************************************************************************)
called == pc[Observed] = "done" /\ prev.called /\ prev.path = filePath[Observed]

\* C1: when the observed caller calls GetFileContent twice in succession on one
\* path (the file is as it was when the first call started, and no other caller
\* stored the entry after the first call returned), the second call returns the
\* content the first returned and makes no os.ReadFile call.
C1_Idempotent ==
    (called /\ ~prev.err /\ quietPrev /\ ~othersStored)
        => (ret[Observed] = Ok(prev.content) /\ reads = 0)

C1_Witness ==
    /\ called /\ ~prev.err /\ quietPrev /\ ~othersStored
    /\ ret[Observed] = Ok(prev.content)
    /\ reads = 0
    /\ filePath[Observed] \in DOMAIN fileCache

\* C2: a call leaves the fast path with the cached content only when an entry
\* exists and its stored time equals the file's time on disk at the stat; with no
\* entry, another stored time or a failed stat it goes on to os.ReadFile. So when
\* the file's content and time were modified between two calls of the observed
\* caller (and not since, and no other caller stored the entry in between), the
\* second call returns the content now on disk.
C2_FastPath ==
    \A p \in Procs :
        LET f == filePath[p] IN
        /\ (pc[p] = "rlock" /\ pc'[p] # "rlock")
              => (pc'[p] = "read" <=> f \notin DOMAIN fileCache)
        /\ (pc[p] = "stat1" /\ pc'[p] # "stat1")
              => IF /\ f \in DOMAIN fileCache
                    /\ f \in DOMAIN fileMtimes
                    /\ fs[f].exists
                    /\ fileMtimes[f] = fs[f].mtime
                 THEN pc'[p] = "done" /\ ret'[p] = Ok(fileCache[f])
                 ELSE pc'[p] = "read"

C2_Updated ==
    (called /\ modified /\ quietCur /\ ~othersStored)
        => ret[Observed] = Ok(fs[filePath[Observed]].content)

C2_Invalidation == [][C2_FastPath]_vars /\ []C2_Updated

C2_Witness ==
    /\ called /\ modified /\ quietCur /\ ~othersStored
    /\ ~prev.err
    /\ ret[Observed] = Ok(fs[filePath[Observed]].content)
    /\ ret[Observed].content # prev.content
    /\ reads = 1

\* C3: every cache entry's content is the content the file had at the entry's
\* stored modification time.
C3_EntryValid ==
    \A f \in DOMAIN fileCache :
        /\ f \in DOMAIN fileMtimes
        /\ <<f, fileMtimes[f], fileCache[f]>> \in written

\* C4: a call whose os.ReadFile fails returns the error and leaves both cache
\* maps as they were, an earlier entry of the path included.
C4_ReadError ==
    [][\A p \in Procs :
          (pc[p] = "read" /\ pc'[p] # "read" /\ ~ReadOk(filePath[p]))
              => /\ pc'[p] = "done"
                 /\ ret'[p] = Err
                 /\ fileCache' = fileCache
                 /\ fileMtimes' = fileMtimes]_vars

C4_Witness ==
    \E p \in Procs :
        /\ pc[p] = "done"
        /\ ret[p] = Err
        /\ filePath[p] \in DOMAIN fileCache
        /\ filePath[p] \in DOMAIN fileMtimes

\* C5: no caller holds cm.mutex, for reading or for writing, while it is at a
\* filesystem call (the fast path's stat, the read, the second stat).
C5_NoLockDuringIO ==
    \A p \in Procs :
        pc[p] \in {"stat1", "read", "stat2"} => (p \notin readers /\ writer # p)

\* a writer waits in Lock() while another caller stats the file under RLock
C5_WriterWaitsForStat ==
    \E p, q \in Procs :
        /\ pc[p] = "stat1" /\ p \in readers
        /\ pc[q] = "lock"

(***************************************************************************)
(* The context assembler.                                                  *)
(***************************************************************************)
\* a call of GetFileContext has returned a text
built == cpc = "done" /\ ~cret.err

\* the primary block as the filesystem has the file
primaryOnDisk == PrimaryBlock(Rel(rootPath, cpath), fs[cpath].content)

\* the related-file block of the i-th related file as the filesystem has it
relatedOnDisk(i) ==
    RelatedBlock(Rel(rootPath, relatedFiles[i]), fs[relatedFiles[i]].content)

\* the positions of relatedFiles whose file can be read
readableAt == {i \in 1..Len(relatedFiles) : ReadOk(relatedFiles[i])}

\* the total size of the sections of one kind among the first n sections
RECURSIVE sizeOf(_, _)
sizeOf(kind, n) ==
    IF n = 0 THEN 0
    ELSE sizeOf(kind, n - 1) + (IF sections[n].kind = kind THEN sections[n].size ELSE 0)

\* the text of the k-th section, from the filesystem
render(k) ==
    IF sections[k].kind = "primary" THEN primaryOnDisk
    ELSE IF sections[k].kind = "related" THEN relatedOnDisk(sections[k].at)
    ELSE Notice(Rel(rootPath, relatedFiles[sections[k].at]))

RECURSIVE rendered(_)
rendered(n) == IF n = 0 THEN <<>> ELSE rendered(n - 1) \o render(n)

\* the largest truncation notice of the project
maxNotice ==
    LET sizes == {Len(Notice(Rel(rootPath, f))) : f \in CtxPaths}
    IN CHOOSE m \in sizes : \A n \in sizes : n <= m

\* C6: whatever the budget and the related files, the text under construction
\* and the text returned begin with the primary block, which holds the primary
\* file's content in full.
C6_PrimaryInFull ==
    /\ cpc = "loop" =>
          /\ Len(context) >= Len(primaryOnDisk)
          /\ SubSeq(context, 1, Len(primaryOnDisk)) = primaryOnDisk
    /\ built =>
          /\ Len(cret.content) >= Len(primaryOnDisk)
          /\ SubSeq(cret.content, 1, Len(primaryOnDisk)) = primaryOnDisk

C6_Witness ==
    /\ built
    /\ maxContextLen < Len(primaryOnDisk)
    /\ fs[cpath].content = LongContent
    /\ Len(sections) > 1
    /\ SubSeq(cret.content, 1, Len(primaryOnDisk)) = primaryOnDisk

C8_TotalWithinBudget ==
    (built /\ Len(primaryOnDisk) <= maxContextLen)
        => Len(cret.content) <= maxContextLen

\* the budget is the size of the primary block and the text is longer by a notice
C8_NoticeOverBudget ==
    /\ built
    /\ maxContextLen = Len(primaryOnDisk)
    /\ Len(relatedFiles) = 1
    /\ Len(cret.content) = maxContextLen + sizeOf("notice", Len(sections))
    /\ sizeOf("notice", Len(sections)) > 0

\* C9: with the budget equal to the size of the primary block and exactly one
\* related file that can be read, the returned text is the primary block followed
\* by one truncation notice naming that file, and holds no related-file block.
C9_BudgetIsPrimary ==
    (built /\ maxContextLen = Len(primaryOnDisk) /\ Cardinality(readableAt) = 1)
        => LET i == CHOOSE j \in readableAt : TRUE
           IN /\ cret.content = primaryOnDisk \o Notice(Rel(rootPath, relatedFiles[i]))
              /\ sizeOf("related", Len(sections)) = 0

C9_Witness ==
    /\ built
    /\ maxContextLen = Len(primaryOnDisk)
    /\ Cardinality(readableAt) = 1
    /\ fs[cpath].content = LongContent
    /\ Len(cret.content) > Len(primaryOnDisk)

\* C10: an iteration whose block would take the running total past the budget
\* appends one notice naming the file, leaves the running total as it was and
\* moves to the next related file.
C10_SkipStep ==
    (cpc = "loop" /\ idx <= Len(relatedFiles) /\ ReadOk(relatedFiles[idx])
        /\ totalLength + Len(relatedOnDisk(idx)) > maxContextLen)
    => /\ context' = context \o Notice(Rel(rootPath, relatedFiles[idx]))
       /\ totalLength' = totalLength
       /\ idx' = idx + 1
       /\ cpc' = "loop"

\* C10: in a returned text every related file that can be read has one section,
\* in the order of relatedFiles; the section is the full block exactly when the
\* block fits what the primary block and the blocks before it left of the budget,
\* and the notice otherwise.
C10_LaterIncluded ==
    built =>
        /\ cret.content = rendered(Len(sections))
        /\ \A i \in readableAt : \E k \in 2..Len(sections) : sections[k].at = i
        /\ \A k \in 2..Len(sections) :
              /\ sections[k].at \in readableAt
              /\ \A j \in 2..(k - 1) : sections[j].at < sections[k].at
              /\ sections[k].kind = "related" <=>
                    Len(primaryOnDisk) + sizeOf("related", k - 1)
                        + Len(relatedOnDisk(sections[k].at)) <= maxContextLen

\* C10: a related file over the budget is replaced by a notice and the loop goes
\* on; later related files that fit are included in full.
C10_SkipContinues == [][C10_SkipStep]_vars /\ []C10_LaterIncluded

C10_Witness ==
    /\ built
    /\ Len(sections) = 3
    /\ sections[2].kind = "notice" /\ sections[2].at = 1
    /\ sections[3].kind = "related" /\ sections[3].at = 2
    /\ cret.content = primaryOnDisk \o Notice(Rel(rootPath, relatedFiles[1]))
                          \o relatedOnDisk(2)

\* C19: a call of GetFileContext compares every related file against one value
\* of cm.maxContextLen, whatever SetMaxContextLength does meanwhile.
C19_OneBudgetPerCall == Cardinality(tests) <= 1

\* a returned text no single budget gives: the first related file got a notice,
\* the second, which is no smaller, was included
C19_MixedBudgets ==
    /\ built
    /\ Cardinality(tests) = 2
    /\ Len(sections) = 3
    /\ sections[2].kind = "notice" /\ sections[2].at = 1
    /\ sections[3].kind = "related" /\ sections[3].at = 2
    /\ Len(relatedOnDisk(2)) >= Len(relatedOnDisk(1))

\* C20: a call returns an error exactly when the primary file's content could
\* not be obtained, and then no text; in a returned text a related file that
\* could not be read has neither a block nor a notice, and every related file
\* that could be read has its section after the primary block.
C20_OnlyPrimaryFails ==
    cpc = "done" =>
        /\ cret.err <=> ~ReadOk(cpath)
        /\ cret.err => cret.content = <<>>
        /\ ~cret.err =>
              /\ cret.content = rendered(Len(sections))
              /\ sections[1].kind = "primary"
              /\ \A k \in 2..Len(sections) :
                    sections[k].kind # "primary" /\ sections[k].at \in readableAt
              /\ \A i \in readableAt :
                    Cardinality({k \in 2..Len(sections) : sections[k].at = i}) = 1

C20_Witness ==
    /\ built
    /\ Len(relatedFiles) = 2
    /\ ~ReadOk(relatedFiles[1])
    /\ ReadOk(relatedFiles[2])
    /\ Len(sections) = 2
    /\ sections[2].kind = "related" /\ sections[2].at = 2
    /\ cret.content = primaryOnDisk \o relatedOnDisk(2)

(***************************************************************************)
(* The ignore rules and the walks.                                         *)
(***************************************************************************)
\* the directories of the tree a path lies in, the root excepted
ancestors(path) ==
    {a \in Nodes \ {rootPath} :
        /\ Len(a) < Len(path)
        /\ SubSeq(path, 1, Len(a) + 1) = a \o <<"/">>}

\* a directory of the tree whose base name is one of the ignored directory names
ignoredDir(a) ==
    tree[a] = "dir" /\ \E i \in 1..Len(ignoreDirs) : ignoreDirs[i] = Base(a)

\* the path lies, at any depth, in an ignored directory
underIgnored(path) == \E a \in ancestors(path) : ignoredDir(a)

\* the lines GetProjectStructure wrote for the first n listed paths
RECURSIVE linesOf(_)
linesOf(n) ==
    IF n = 0 THEN <<>>
    ELSE linesOf(n - 1) \o StructureLine(listed[n], Lstat(listed[n]))

\* C11: neither walk reports an ignored directory or a path that lies, at any
\* depth, in one; the text of GetProjectStructure holds a line for the listed
\* paths and nothing else.
C11_SubtreePruned ==
    /\ \A i \in 1..Len(listed) :
          ~ignoredDir(listed[i]) /\ ~underIgnored(listed[i])
    /\ \A i \in 1..Len(relevantFiles) :
          ~ignoredDir(relevantFiles[i]) /\ ~underIgnored(relevantFiles[i])
    /\ (wpc \in {"walk", "done"} /\ wmode = "structure")
          => result = StrHeader \o linesOf(Len(listed))

C11_Witness ==
    /\ wpc = "done"
    /\ wmode = "structure"
    /\ tree[NodeVenvX] = "file"
    /\ tree[NodeVenvSX] = "file"
    /\ tree[NodeX] = "file"
    /\ listed = <<NodeX>>

\* C12: GetRelevantFiles hands no file to the callback once maxFiles matches are
\* collected, and relevantFiles never holds more than maxFiles paths.
C12_StopsAtLimit ==
    wmode = "relevant" => (~late /\ Len(relevantFiles) <= maxFiles)

\* a walk that was asked for one file and returned two
C12_OverLimit ==
    /\ wpc = "done"
    /\ wmode = "relevant"
    /\ maxFiles = 1
    /\ relevantFiles = <<NodeDX, NodeX>>

\* the files of the tree that are not ignored and whose path relative to the
\* root contains q, whatever the case of the letters
relevantTo(q) ==
    {n \in Nodes :
        /\ tree[n] \in {"file", "dangling"}
        /\ ~ShouldIgnore(n)
        /\ ~underIgnored(n)
        /\ Contains(ToLower(Rel(rootPath, n)), ToLower(q))}

\* the nodes in the order a walk of the whole tree meets them
walkOrder ==
    <<NodeO, NodeD, NodeDY, NodeDX, NodeVenv, NodeVenvS, NodeVenvSX, NodeVenvX, NodeX>>

position(n) == CHOOSE i \in 1..Len(walkOrder) : walkOrder[i] = n

C15_FailOpen ==
    /\ \A n \in Nodes : Stat(n).err => ~ShouldIgnore(n)
    /\ (spc = "done" /\ Stat(spath).err) => ~sret
    /\ (wpc = "done" /\ wmode = "structure")
          => \A n \in Nodes :
                (tree[n] = "dangling" /\ ~underIgnored(n))
                    => \E i \in 1..Len(listed) : listed[i] = n

C15_Witness ==
    /\ wpc = "done"
    /\ wmode = "structure"
    /\ tree[NodeO] = "dangling"
    /\ \E i \in 1..Len(ignoreFiles) : Match(ignoreFiles[i], Base(NodeO)).matched
    /\ \E i \in 1..Len(listed) : listed[i] = NodeO

\* C16: for a path whose stat succeeds ShouldIgnore is true exactly when the
\* path is a directory whose base name is one of ignoreDirs, or is no directory
\* and its base name matches one of ignoreFiles.
C16_KindDecides ==
    \A n \in Nodes :
        ~Stat(n).err =>
            (ShouldIgnore(n) <=>
                IF tree[n] = "dir"
                THEN \E i \in 1..Len(ignoreDirs) : ignoreDirs[i] = Base(n)
                ELSE \E i \in 1..Len(ignoreFiles) :
                        /\ ~Match(ignoreFiles[i], Base(n)).err
                        /\ Match(ignoreFiles[i], Base(n)).matched)

\* a file named as an ignored directory and a directory named as an ignored
\* file are listed, an ignored directory and a file of an added pattern are not
C16_Witness ==
    /\ wpc = "done"
    /\ wmode = "structure"
    /\ tree[NodeVenv] = "file"
    /\ tree[NodeO] = "dir"
    /\ tree[NodeX] = "file"
    /\ ignoreFiles[Len(ignoreFiles)] = <<"*", ".", "g", "o">>
    /\ listed = <<NodeO, NodeVenv>>

\* s is the beginning of t
isPrefix(s, t) == Len(s) <= Len(t) /\ SubSeq(t, 1, Len(s)) = s

\* C17: the step of AddIgnorePattern that changes the rules appends one element:
\* the pattern without its final separator to ignoreDirs when it ends in one,
\* else the pattern to ignoreFiles, and leaves the other list alone; no other
\* step changes either list.
C17_AppendStep ==
    IF apc = "append" /\ apc' = "idle"
    THEN IF apattern # <<>> /\ apattern[Len(apattern)] = "/"
         THEN /\ ignoreDirs' = Append(ignoreDirs, SubSeq(apattern, 1, Len(apattern) - 1))
              /\ ignoreFiles' = ignoreFiles
         ELSE /\ ignoreFiles' = Append(ignoreFiles, apattern)
              /\ ignoreDirs' = ignoreDirs
    ELSE ignoreDirs' = ignoreDirs /\ ignoreFiles' = ignoreFiles

\* C17: the rules only grow, from the lists NewContextManager made
C17_OnlyGrows ==
    /\ isPrefix(NewIgnoreDirs(isKaliLinux), ignoreDirs)
    /\ isPrefix(DefaultIgnoreFiles, ignoreFiles)

\* C17: AddIgnorePattern appends exactly one element to the list its pattern
\* names, and nothing is ever removed from either list.
C17_AppendOnly == [][C17_AppendStep]_vars /\ []C17_OnlyGrows

C17_Witness ==
    /\ apc = "idle"
    /\ Len(ignoreDirs) = Len(NewIgnoreDirs(isKaliLinux)) + 1
    /\ ignoreDirs[Len(ignoreDirs)] = <<"d">>
    /\ ignoreFiles = DefaultIgnoreFiles

\* the thread that calls ShouldIgnore, as a holder of cm.mutex
Checker == NumProcs + 2

\* C18: while a caller of AddIgnorePattern is about to write a list under the
\* write lock, no caller of ShouldIgnore is in its loop over the lists without
\* holding cm.mutex.
C18_ReadsUnderLock ==
    ~(/\ apc = "append"
      /\ writer = Adder
      /\ spc = "scan"
      /\ Checker \notin readers)

(***************************************************************************)
(* The related-file resolver.                                              *)
(***************************************************************************)
\* C14: for a.go with the content import "./b" and a file b.go in its
\* directory, findRelatedFiles returns a list that holds the path of b.go.
C14_ImportFindsFile ==
    (rpc = "done" /\ rcontent = SrcImportB /\ tree[PathB] = "file")
        => \E i \in 1..Len(found) : found[i] = PathB

\* b.go is there, the import names it without its extension, nothing is found
C14_ImportMissed ==
    /\ rpc = "done"
    /\ rcontent = SrcImportB
    /\ tree[PathB] = "file"
    /\ tree[NodeB] = "none"
    /\ tree[NodeTxt] = "none"
    /\ found = <<>>

(***************************************************************************)
(* The order of the sections of a built context.                           *)
(***************************************************************************)
\* C22: in a returned text the primary section is first, the related sections
\* follow in the order of relatedFiles, and the notices come after the last
\* related section.
C22_NoticesLast ==
    built =>
        /\ sections[1].kind = "primary"
        /\ \A j, k \in 2..Len(sections) :
              (j < k /\ sections[j].kind = "related" /\ sections[k].kind = "related")
                  => sections[j].at < sections[k].at
        /\ \A j, k \in 2..Len(sections) :
              (sections[j].kind = "notice" /\ sections[k].kind = "related") => k < j

\* a returned text whose notice for the first related file stands before the
\* section of the second
C22_NoticeBeforeRelated ==
    /\ built
    /\ \E j, k \in 2..Len(sections) :
          /\ j < k
          /\ sections[j].kind = "notice"
          /\ sections[k].kind = "related"
          /\ relatedFiles[sections[j].at] # relatedFiles[sections[k].at]

(***************************************************************************)
(* SpecHost: every operation of the manager that takes cm.mutex or writes  *)
(* the cache, called by concurrent threads of the host: GetFileContent,    *)
(* AddIgnorePattern, SetMaxContextLength and GetFileContext; a.go may be   *)
(* removed at any time. The two map assignments of GetFileContent are two  *)
(* steps here.                                                             *)
(***************************************************************************)
\* cm.fileCache[filePath] = content, under the write lock
StoreContent(p) ==
    /\ pc[p] = "store"
    /\ fileCache' = Put(fileCache, filePath[p], content[p])
    /\ pc' = [pc EXCEPT ![p] = "storeMtime"]
    /\ UNCHANGED <<uiVars, ctxVars, extVars, fsVars, fileMtimes, mutexVars, filePath, content,
                   info, ret, histVars>>

\* cm.fileMtimes[filePath] = info.ModTime().UnixNano(); cm.mutex.Unlock()
StoreMtime(p) ==
    /\ pc[p] = "storeMtime"
    /\ fileMtimes' = Put(fileMtimes, filePath[p], StoredMtime(p))
    /\ writer' = 0
    /\ ret' = [ret EXCEPT ![p] = Ok(content[p])]
    /\ pc' = [pc EXCEPT ![p] = "done"]
    /\ content' = [content EXCEPT ![p] = <<>>]
    /\ info' = [info EXCEPT ![p] = 0]
    /\ IF p = Observed
       THEN Step(p, TRUE)
       ELSE /\ storedSince' = (storedSince \/ filePath[p] = filePath[Observed])
            /\ UNCHANGED othersStored
    /\ UNCHANGED <<uiVars, ctxVars, extVars, fsVars, fileCache, readers, filePath, reads, prev,
                   quietCur, quietPrev, modified>>

\* the budget the host sets
HostBudget == 54

\* the pattern the host adds
HostPattern == <<"d", "/">>

InitHost ==
    /\ InitPlain
    /\ clock = 1
    /\ fs = [f \in CtxPaths |->
                IF f = PathA THEN File(<<"x">>, 1)
                ELSE IF f = PathB THEN File(<<"x", "y">>, 1)
                ELSE Missing]
    /\ written = {<<f, 1, fs[f].content>> : f \in {g \in CtxPaths : fs[g].exists}}
    /\ InitManager
    /\ InitCallers
    /\ InitContext

\* the thread of the host that calls GetFileContent
HostCaller == NumProcs

NextHost ==
    \/ \E f \in CachePaths : Call(HostCaller, f)
    \/ RLock(HostCaller)
    \/ Stat1(HostCaller)
    \/ Read(HostCaller)
    \/ Stat2(HostCaller)
    \/ Lock(HostCaller)
    \/ StoreContent(HostCaller)
    \/ StoreMtime(HostCaller)
    \/ Return(HostCaller)
    \/ \E f \in CachePaths : Remove(f)
    \/ Added = 0 /\ AddLock(HostPattern)
    \/ AddAppend
    \/ writer = 0 /\ readers = {} /\ maxContextLen # HostBudget
          /\ SetMaxContextLength(HostBudget)
    \/ \E f \in {PathA} : writer = 0 /\ BuildStart(f)
    \/ writer = 0 /\ BuildIter
    \/ BuildReturn
    \/ BuildDone

SpecHost == InitHost /\ [][NextHost]_vars

\* C23: no step removes a path from the content map or from the timestamp map
C23_GrowStep ==
    /\ DOMAIN fileCache \subseteq DOMAIN fileCache'
    /\ DOMAIN fileMtimes \subseteq DOMAIN fileMtimes'

\* C23: while no caller of GetFileContent holds the write lock the two maps have
\* the same keys
C23_SameKeys ==
    (writer \notin Procs) => DOMAIN fileCache = DOMAIN fileMtimes

\* C23: the set of cached paths only grows, whatever GetFileContent,
\* AddIgnorePattern, SetMaxContextLength and GetFileContext do in whatever
\* order, and outside a cache write the content map and the timestamp map have
\* the same key set.
C23_NeverEvicted == [][C23_GrowStep]_vars /\ []C23_SameKeys

\* a.go was removed after it was cached and a call for it failed; its entry and
\* the entry of b.go, stored by GetFileContext, are still there
C23_Witness ==
    /\ writer = 0
    /\ ~fs[PathA].exists
    /\ \E p \in Procs : pc[p] = "done" /\ ret[p].err
    /\ DOMAIN fileCache = {PathA, PathB}
    /\ DOMAIN fileMtimes = {PathA, PathB}
    /\ Added = 1
    /\ maxContextLen = HostBudget

(***************************************************************************)
(* SpecLang: findRelatedFiles on a Go, a JS and a Python source file of    *)
(* the project root, for the contents and the directories below.          *)
(***************************************************************************)
PathAJs == Join(rootPath, NameAJs)
PathAPy == Join(rootPath, NameAPy)
NodeA0 == Join(rootPath, NameA0)
NodeBJs == Join(rootPath, NameBJs)
NodeBPy == Join(rootPath, NameBPy)
NodeBCJs == Join(NodeB, NameCJs)
NodeBCPy == Join(NodeB, NameCPy)
NodeBS == Join(NodeB, NameS)
NodeBSC == Join(NodeBS, NameC)
NodeBSCJs == Join(NodeBS, NameCJs)
NodeBSCPy == Join(NodeBS, NameCPy)

LangNodes == {rootPath, PathA, PathAJs, PathAPy, NodeA0, PathB, NodeBJs, NodeBPy,
              NodeB, NodeBC, NodeBCJs, NodeBCPy, NodeBS, NodeBSC, NodeBSCJs, NodeBSCPy}

\* the source files the model calls findRelatedFiles on
LangSources == {PathA, PathAJs, PathAPy}

\* a.go, a.js and a.py are there; a is a file, a directory or absent; b.go,
\* b.js and b.py are files or absent; b is a file, absent, or a directory that
\* holds c.go, c.js, c.py and the directory s with c.go, c.js and c.py
LangTrees ==
    {[n \in LangNodes |->
         IF n = rootPath THEN "dir"
         ELSE IF n \in LangSources THEN "file"
         ELSE IF n = NodeA0 THEN a
         ELSE IF n = PathB THEN bGo
         ELSE IF n = NodeBJs THEN bJs
         ELSE IF n = NodeBPy THEN bPy
         ELSE IF n = NodeB THEN b
         ELSE IF n = NodeBS THEN (IF b = "dir" THEN "dir" ELSE "none")
         ELSE (IF b = "dir" THEN "file" ELSE "none")] :
        a \in {"none", "file", "dir"}, bGo \in {"none", "file"},
        bJs \in {"none", "file"}, bPy \in {"none", "file"},
        b \in {"none", "file", "dir"}}

\* import "./a.go"
SrcGoSelf == <<"i", "m", "p", "o", "r", "t", " ", "\"", ".", "/", "a", ".", "g", "o", "\"">>
\* import "./a.js"
SrcGoSibling == <<"i", "m", "p", "o", "r", "t", " ", "\"", ".", "/", "a", ".", "j", "s", "\"">>
\* import "./b" twice
SrcGoTwice == SrcImportB \o <<"\n">> \o SrcImportB
\* import x from './b'
SrcJsFrom ==
    <<"i", "m", "p", "o", "r", "t", " ", "x", " ", "f", "r", "o", "m", " ", "'", ".", "/", "b", "'">>
\* require('./b');
SrcJsRequire ==
    <<"r", "e", "q", "u", "i", "r", "e", "(", "'", ".", "/", "b", "'", ")", ";">>
\* import x from "./a";
SrcJsSelf ==
    <<"i", "m", "p", "o", "r", "t", " ", "x", " ", "f", "r", "o", "m", " ", "\"", ".", "/", "a", "\"", ";">>
\* from .b import x
SrcPyFromB ==
    <<"f", "r", "o", "m", " ", ".", "b", " ", "i", "m", "p", "o", "r", "t", " ", "x">>
\* from . import x
SrcPyFromDot ==
    <<"f", "r", "o", "m", " ", ".", " ", "i", "m", "p", "o", "r", "t", " ", "x">>
\* import b
SrcPyImport == <<"i", "m", "p", "o", "r", "t", " ", "b">>
\* a file with no import
SrcNone == <<"x">>

\* the contents of the source files
LangContents ==
    {SrcImportB, SrcGoSelf, SrcGoSibling, SrcGoTwice, SrcJsFrom, SrcJsRequire,
     SrcJsSelf, SrcPyFromB, SrcPyFromDot, SrcPyImport, SrcNone}

InitLang ==
    /\ InitUI
    /\ isKaliLinux = FALSE
    /\ tree \in LangTrees
    /\ InitIgnoreCallers
    /\ InitRelatedCaller
    /\ clock = 1
    /\ fs = [f \in CtxPaths |-> Missing]
    /\ written = {}
    /\ InitManager
    /\ InitCallers
    /\ InitContext

NextLang ==
    \/ \E path \in LangSources, c \in LangContents : FindRelatedOn(path, c)
    \/ FindDone

SpecLang == InitLang /\ [][NextLang]_vars

(***************************************************************************)
(* The results of findRelatedFiles.                                        *)
(***************************************************************************)
\* the elements of a list
elements(list) == {list[i] : i \in 1..Len(list)}

\* the call was for a source file whose one import names ./b in the way of its
\* language
importsB ==
    \/ rfile = PathA /\ rcontent = SrcImportB
    \/ rfile = PathAJs /\ rcontent \in {SrcJsFrom, SrcJsRequire}
    \/ rfile = PathAPy /\ rcontent = SrcPyFromB

\* C24: in each language an import of ./b adds /p/b when that is a file, and
\* when it is a directory adds the file of the source's extension that lies in
\* it and nothing of its subdirectory.
C24_ImportResolves ==
    (rpc = "done" /\ importsB) =>
        /\ tree[NodeB] = "file" => NodeB \in elements(found)
        /\ tree[NodeB] = "dir" =>
              /\ Join(NodeB, <<"c">> \o Ext(rfile)) \in elements(found)
              /\ elements(found) \cap {NodeBSC, NodeBSCJs, NodeBSCPy} = {}

\* a JS file imports the directory b, which holds c.js, and nothing of b is found
C24_DirectoryMissed ==
    /\ rpc = "done"
    /\ rfile = PathAJs
    /\ rcontent = SrcJsFrom
    /\ tree[NodeB] = "dir"
    /\ tree[NodeBCJs] = "file"
    /\ NodeBCJs \notin elements(found)

\* the name without its extension
stem(name) == SubSeq(name, 1, Len(name) - Len(Ext(name)))

\* the entries of the source file's directory with the stem of the source file
\* and another extension
siblingEntries ==
    {n \in DOMAIN tree :
        /\ n # rootPath
        /\ tree[n] # "none"
        /\ Dir(n) = Dir(rfile)
        /\ stem(Base(n)) = stem(Base(rfile))
        /\ Ext(Base(n)) # Ext(Base(rfile))}

\* what the scan for the same base name added: found without the import scan's part
siblingPart ==
    SubSeq(found, Len(LanguageImports(rfile, rcontent)) + 1, Len(found))

C26_NoDuplicates ==
    rpc = "done" => \A i, j \in 1..Len(found) : i # j => found[i] # found[j]

\* a.go imports ./a.js, which the scan for the same base name finds again
C26_Duplicate ==
    /\ rpc = "done"
    /\ rfile = PathA
    /\ rcontent = SrcGoSibling
    /\ \E i, j \in 1..Len(found) : i < j /\ found[i] = PathAJs /\ found[j] = PathAJs

\* C28: findRelatedFiles does not return the source file itself.
C28_NoSelf ==
    rpc = "done" => rfile \notin elements(found)

\* a.py holds `from . import x` and is the first file of its own result
C28_SelfIncluded ==
    /\ rpc = "done"
    /\ rfile = PathAPy
    /\ rcontent = SrcPyFromDot
    /\ found[1] = PathAPy

(***************************************************************************)
(* SpecRoot: as SpecWalk, for a host that adds the project root's own base *)
(* name to the ignored directory names.                                    *)
(***************************************************************************)
\* the pattern that names the root: "p/"
RootPattern == Base(rootPath) \o <<"/">>

NextRoot ==
    \/ wpc = "idle" /\ AddLock(RootPattern)
    \/ AddAppend
    \/ apc = "idle" /\ StructureStart
    \/ StructureVisit
    \/ StructureReturn
    \/ \E q \in Queries, m \in 1..MaxLimit : apc = "idle" /\ RelevantStart(q, m)
    \/ RelevantVisit
    \/ RelevantReturn
    \/ WalkDone

SpecRoot == InitWalk /\ [][NextRoot]_vars

\* the base name of the root is one of the ignored directory names
rootIgnored == \E i \in 1..Len(ignoreDirs) : ignoreDirs[i] = Base(rootPath)

\* C29: with a root whose base name is an ignored directory name, a walk of
\* GetProjectStructure lists every entry that is not ignored and lies in no
\* ignored directory below the root, and a walk of GetRelevantFiles returns
\* files when files that are not ignored match the query.
C29_RootNotChecked ==
    (wpc = "done" /\ rootIgnored) =>
        /\ wmode = "structure" =>
              \A n \in Nodes \ {rootPath} :
                  (tree[n] # "none" /\ ~ShouldIgnore(n) /\ ~underIgnored(n))
                      => n \in {listed[i] : i \in 1..Len(listed)}
        /\ wmode = "relevant" =>
              (relevantTo(query) # {} => relevantFiles # <<>>)

\* x.go matches the query and is not ignored, the root's name is ignored, and
\* GetRelevantFiles returns nothing
C29_RootSkipped ==
    /\ wpc = "done"
    /\ wmode = "relevant"
    /\ rootIgnored
    /\ query = <<"X">>
    /\ tree[NodeX] = "file"
    /\ ~ShouldIgnore(NodeX)
    /\ relevantFiles = <<>>
    /\ wret = Ok(<<>>)

(***************************************************************************)
(* SpecWalkErr: the two walks over a project with entries the walk cannot  *)
(* look at: a directory d whose entries cannot be read, and an entry a.o   *)
(* whose lstat fails.                                                      *)
(***************************************************************************)
\* the root holds a.o, d and x.go
ErrTrees ==
    {[n \in Nodes |->
         IF n = NodeD THEN d
         ELSE IF n \in {NodeDX, NodeDY} THEN (IF d = "dir" THEN "file" ELSE "none")
         ELSE IF n = NodeO THEN o
         ELSE IF n = NodeX THEN "file"
         ELSE IF n = rootPath THEN "dir"
         ELSE "none"] :
        d \in {"dir", "noread"}, o \in {"none", "file", "nostat"}}

InitWalkErr ==
    /\ InitUI
    /\ isKaliLinux = FALSE
    /\ tree \in ErrTrees
    /\ InitIgnoreCallers
    /\ InitRelatedCaller
    /\ clock = 1
    /\ fs = [f \in CtxPaths |-> Missing]
    /\ written = {}
    /\ InitManager
    /\ InitCallers
    /\ InitContext

NextWalkErr ==
    \/ StructureStart
    \/ StructureVisit
    \/ StructureReturn
    \/ \E q \in Queries, m \in 1..MaxLimit : RelevantStart(q, m)
    \/ RelevantVisit
    \/ RelevantReturn
    \/ WalkDone

SpecWalkErr == InitWalkErr /\ [][NextWalkErr]_vars

\* some entry of the tree makes the walk hand an error to the callback
entryFails == \E n \in Nodes : tree[n] \in {"noread", "nostat"}

\* C21: a walk that met an entry with an error does not fail: it returns no
\* error, GetProjectStructure has listed the entries after the failing one, and
\* GetRelevantFiles has gone on to the files after it.
C21_EntryErrorsSkipped ==
    (wpc = "done" /\ entryFails) =>
        /\ ~wret.err
        /\ wmode = "structure" => NodeX \in {listed[i] : i \in 1..Len(listed)}
        /\ (wmode = "relevant" /\ query = <<"X">> /\ maxFiles > 1)
              => NodeX \in {relevantFiles[i] : i \in 1..Len(relevantFiles)}

\* GetProjectStructure returns an error for a project whose directory d cannot
\* be read
C21_StructureFails ==
    /\ wpc = "done"
    /\ wmode = "structure"
    /\ tree[NodeD] = "noread"
    /\ tree[NodeO] = "file"
    /\ wret = Err

(***************************************************************************)
(* The terminal UI (src/ui/terminal.go): the message history guarded by    *)
(* tui.mutex, a sync.Mutex, which a goroutine that holds it cannot lock    *)
(* again. A goroutine is at "addLock", "viewLock" or "lastLock" when its   *)
(* next statement is tui.mutex.Lock() of AddMessage, of UpdateViewContent  *)
(* or of the append branch of Update.                                      *)
(***************************************************************************)
\* everything of the context manager, which the terminal UI does not touch
managerVars == <<fsVars, cacheVars, mutexVars, localVars, histVars, ctxVars, extVars>>

\* goroutine t calls tui.AddMessage(role, ...)
CallAddMessage(t, role) ==
    /\ upc' = [upc EXCEPT ![t] = "addLock"]
    /\ urole' = [urole EXCEPT ![t] = role]
    /\ nested' = [nested EXCEPT ![t] = TRUE]

\* handlePrompt and handleCommand on the host's goroutine: terminal.AddMessage
HostAddMessage(role) ==
    /\ upc["host"] = "idle"
    /\ CallAddMessage("host", role)
    /\ UNCHANGED <<uiMutex, umsg, messages, ready, loading, viewed, width, managerVars>>

\* Update(tea.KeyMsg) for Enter with some input, when nothing is loading
UpdateKeyEnter ==
    /\ upc["loop"] = "idle"
    /\ ~loading
    /\ umsg' = "enter"
    /\ CallAddMessage("loop", "user")
    /\ UNCHANGED <<uiMutex, messages, ready, loading, viewed, width, managerVars>>

\* Update(appendMessageMsg{role: "assistant", append: true})
UpdateAppendMessage ==
    /\ upc["loop"] = "idle"
    /\ umsg' = "append"
    /\ IF Len(messages) > 0 /\ messages[Len(messages)].role = "assistant"
       THEN /\ upc' = [upc EXCEPT !["loop"] = "lastLock"]
            /\ UNCHANGED <<urole, nested>>
       ELSE CallAddMessage("loop", "assistant")
    /\ UNCHANGED <<uiMutex, messages, ready, loading, viewed, width, managerVars>>

\* Update(errorMsg)
UpdateError ==
    /\ upc["loop"] = "idle"
    /\ umsg' = "error"
    /\ loading' = FALSE
    /\ CallAddMessage("loop", "system")
    /\ UNCHANGED <<uiMutex, messages, ready, viewed, width, managerVars>>

\* the widths of the terminal
Widths == {80, 100}

\* Update(tea.WindowSizeMsg): the size, and before the viewport exists
\* tui.UpdateViewContent()
UpdateWindowSize(w) ==
    /\ upc["loop"] = "idle"
    /\ width' = w
    /\ IF ~ready
       THEN /\ umsg' = "window"
            /\ upc' = [upc EXCEPT !["loop"] = "viewLock"]
            /\ nested' = [nested EXCEPT !["loop"] = FALSE]
       ELSE UNCHANGED <<umsg, upc, nested>>
    /\ UNCHANGED <<uiMutex, urole, messages, ready, loading, viewed, managerVars>>

\* tui.mutex.Lock() can return: nobody holds the mutex
MutexFree(t) == uiMutex = "free"

\* tui.mutex.Lock() of goroutine t
UILock(t) ==
    /\ upc[t] \in {"addLock", "viewLock", "lastLock"}
    /\ MutexFree(t)
    /\ uiMutex' = t
    /\ upc' = [upc EXCEPT ![t] = IF upc[t] = "addLock" THEN "append"
                                 ELSE IF upc[t] = "viewLock" THEN "viewBody"
                                 ELSE "lastAppend"]
    /\ UNCHANGED <<urole, umsg, nested, messages, ready, loading, viewed, width, managerVars>>

\* what goroutine t does after Update's call of AddMessage or of
\* UpdateViewContent returned, up to the end of its handler
AfterCall(t) ==
    /\ upc' = [upc EXCEPT ![t] = "idle"]
    /\ urole' = [urole EXCEPT ![t] = "none"]
    /\ nested' = [nested EXCEPT ![t] = FALSE]
    /\ umsg' = IF t = "loop" THEN "none" ELSE umsg
    /\ ready' = (ready \/ (t = "loop" /\ umsg = "window"))
    /\ loading' = IF t = "loop" /\ umsg = "enter" THEN TRUE
                  ELSE IF t = "loop" /\ umsg = "append" THEN FALSE
                  ELSE loading

\* what goroutine t does with the mutex locked, up to its next Lock or its return
UICritical(t) ==
    /\ upc[t] \in {"append", "viewBody", "lastAppend"}
    /\ IF upc[t] = "append"
       THEN \* AddMessage: append, then tui.UpdateViewContent() with the mutex held
            /\ messages' = Append(messages, [role |-> urole[t], parts |-> 1])
            /\ upc' = [upc EXCEPT ![t] = "viewLock"]
            /\ UNCHANGED <<uiMutex, urole, umsg, nested, ready, loading, viewed, width>>
       ELSE IF upc[t] = "viewBody"
       THEN \* UpdateViewContent: the content of the viewport, the deferred Unlock
            /\ viewed' = IF ready THEN Len(messages) ELSE viewed
            /\ UNCHANGED <<messages, width>>
            /\ IF nested[t]
               THEN \* back in AddMessage, whose deferred Unlock finds the mutex
                    \* unlocked: fatal error
                    /\ uiMutex' = "free"
                    /\ upc' = [upc EXCEPT ![t] = "fatal"]
                    /\ UNCHANGED <<urole, umsg, nested, ready, loading>>
               ELSE /\ uiMutex' = "free"
                    /\ AfterCall(t)
       ELSE \* Update: tui.messages[len-1].Content += msg.content; Unlock; the
            \* command that calls UpdateViewContent is started
            /\ messages' = [messages EXCEPT ![Len(messages)].parts = @ + 1]
            /\ uiMutex' = "free"
            /\ upc' = [upc EXCEPT ![t] = "idle",
                                  !["cmd"] = IF upc["cmd"] = "idle" THEN "viewLock" ELSE @]
            /\ umsg' = "none"
            /\ loading' = FALSE
            /\ UNCHANGED <<urole, nested, ready, viewed, width>>
    /\ UNCHANGED managerVars

NextUI ==
    \/ \E role \in {"user", "system"} : HostAddMessage(role)
    \/ UpdateKeyEnter
    \/ UpdateAppendMessage
    \/ UpdateError
    \/ \E w \in Widths : UpdateWindowSize(w)
    \/ \E t \in UIThreads : UILock(t)
    \/ \E t \in UIThreads : UICritical(t)

\* a goroutine that can take its next step takes it
FairUI == \A t \in UIThreads : WF_vars(UILock(t)) /\ WF_vars(UICritical(t))

\* SpecUI: the goroutines of a program that uses the terminal UI
InitTerminal ==
    /\ InitPlain
    /\ clock = 1
    /\ fs = [f \in CtxPaths |-> Missing]
    /\ written = {}
    /\ InitManager
    /\ InitCallers
    /\ InitContext

SpecUI == InitTerminal /\ [][NextUI]_vars /\ FairUI

\* C27: every call of AddMessage returns: a goroutine that is about to lock the
\* mutex in AddMessage is later back at the end of its handler, with the
\* message in the history and the mutex not held by it.
C27_AddMessageReturns ==
    \A t \in {"host", "loop"} :
        (upc[t] = "addLock") ~> (upc[t] = "idle" /\ uiMutex # t)

\* the host's goroutine holds the mutex it locked in AddMessage and waits for
\* it in UpdateViewContent
C27_SelfDeadlock ==
    /\ upc["host"] = "viewLock"
    /\ nested["host"]
    /\ uiMutex = "host"
    /\ messages = <<[role |-> "user", parts |-> 1]>>
    /\ ~ENABLED UILock("host")

====
